---- MODULE Spec2Model ----
(***************************************************************************)
(* Model of the PM / TCO analysis engine of PMtool:                        *)
(*   - runAnalysis and the /calculate, /compare, /quick-calculate routes   *)
(*     (src/server/routes/maintenance.js),                                 *)
(*   - calculateFullAnalysis (src/server/services/calculator.js),          *)
(*   - the Weibull lifecycle helpers (src/unnamed/part_009).               *)
(*                                                                         *)
(* JavaScript numbers are modelled as exact rationals <<n, d>> (d > 0),    *)
(* extended with the three IEEE specials the code can produce:             *)
(*   <<0,0>> = NaN, <<1,0>> = +Infinity, <<-1,0>> = -Infinity.             *)
(* Binary floating-point rounding error is not modelled; Math.round,       *)
(* Math.floor, Math.ceil and round2 are.                                   *)
(***************************************************************************)
EXTENDS Integers, Sequences, FiniteSets, TLC

\* ------------------------------------------------------------------------
\* Bounds of the model
\* ------------------------------------------------------------------------
MaxTasks == 2
MaxPeriod == 3
MaxInstant == 2
MaxIds == 3
MaxScenarios == 2
MaxSnapshots == 2
MaxClock == 4
MaxPmTasks == 2

\* ------------------------------------------------------------------------
\* JavaScript values
\* ------------------------------------------------------------------------
\* null / undefined of an integer-valued field
NULL == -1000000

\* JS truthiness of a nullable integer field
Truthy(x) == x # NULL /\ x # 0

\* x ?? dflt
Coalesce(x, dflt) == IF x = NULL THEN dflt ELSE x

\* x || dflt
OrElse(x, dflt) == IF Truthy(x) THEN x ELSE dflt

\* ------------------------------------------------------------------------
\* Numbers
\* ------------------------------------------------------------------------
NaN == <<0, 0>>
PosInf == <<1, 0>>
NegInf == <<-1, 0>>

Abs(x) == IF x < 0 THEN -x ELSE x

Sign(x) == IF x < 0 THEN -1 ELSE IF x > 0 THEN 1 ELSE 0

RECURSIVE GCD(_, _)
GCD(a, b) == IF b = 0 THEN a ELSE GCD(b, a % b)

Norm(n, d) ==
  IF d = 0 THEN <<Sign(n), 0>>
  ELSE IF d = 1 THEN <<n, 1>>
  ELSE LET g == GCD(Abs(n), Abs(d))
           s == IF d < 0 THEN -1 ELSE 1
       IN <<(s * n) \div g, (s * d) \div g>>

\* an integer as a number; null converts to 0 (ToNumber(null))
I(x) == IF x = NULL THEN <<0, 1>> ELSE <<x, 1>>

Q(n, d) == Norm(n, d)

Zero == <<0, 1>>
One == <<1, 1>>

IsNaN(a) == a[2] = 0 /\ a[1] = 0
IsInf(a) == a[2] = 0 /\ a[1] # 0
IsFinite(a) == a[2] # 0

Neg(a) == <<-a[1], a[2]>>

Add(a, b) ==
  IF IsNaN(a) \/ IsNaN(b) THEN NaN
  ELSE IF IsInf(a) /\ IsInf(b) THEN (IF a[1] = b[1] THEN a ELSE NaN)
  ELSE IF IsInf(a) THEN a
  ELSE IF IsInf(b) THEN b
  ELSE IF a[2] = b[2] THEN Norm(a[1] + b[1], a[2])
  ELSE Norm(a[1] * b[2] + b[1] * a[2], a[2] * b[2])

Sub(a, b) == Add(a, Neg(b))

Mul(a, b) == Norm(a[1] * b[1], a[2] * b[2])

\* 1 / a  (1/0 = Infinity, 1/Infinity = 0)
Inv(a) ==
  IF IsNaN(a) THEN NaN
  ELSE IF IsInf(a) THEN Zero
  ELSE IF a[1] = 0 THEN PosInf
  ELSE Norm(a[2], a[1])

Div(a, b) == Mul(a, Inv(b))

\* comparisons; any comparison with NaN is false
Lt(a, b) ==
  IF IsNaN(a) \/ IsNaN(b) THEN FALSE
  ELSE IF IsInf(a) /\ IsInf(b) THEN a[1] < b[1]
  ELSE IF IsInf(a) THEN a[1] < 0
  ELSE IF IsInf(b) THEN b[1] > 0
  ELSE a[1] * b[2] < b[1] * a[2]

Le(a, b) ==
  IF IsNaN(a) \/ IsNaN(b) THEN FALSE
  ELSE a = b \/ Lt(a, b)

Gt(a, b) == Lt(b, a)

Ge(a, b) == Le(b, a)

\* JS truthiness of a number: 0 and NaN are falsy
NumTruthy(a) == ~IsNaN(a) /\ a # Zero

\* a || b on numbers
NumOr(a, b) == IF NumTruthy(a) THEN a ELSE b

\* Math.floor / Math.ceil / Math.round
Floor(a) == IF IsFinite(a) THEN <<a[1] \div a[2], 1>> ELSE a

Ceil(a) == IF IsFinite(a) THEN <<-((-a[1]) \div a[2]), 1>> ELSE a

Round(a) == Floor(Add(a, Q(1, 2)))

\* Math.pow(b, k) for an integer exponent k >= 0, by repeated squaring
RECURSIVE Pow(_, _)
Pow(b, k) ==
  IF k <= 0 THEN One
  ELSE IF k % 2 = 1 THEN Mul(b, Pow(b, k - 1))
  ELSE Pow(Mul(b, b), k \div 2)

\* Math.max / Math.min on finite numbers
Max(a, b) == IF Lt(a, b) THEN b ELSE a

Min(a, b) == IF Lt(b, a) THEN b ELSE a

\* a sequence given by a function constructor, evaluated once into a tuple
Tuple(s) == s \o <<>>

\* sum of a sequence of numbers, 0 when it is empty (reduce with +, or a +=
\* loop); Add is associative on these numbers, so the two halves are summed
\* and added
RECURSIVE SumSeq(_)
SumSeq(s) ==
  IF Len(s) = 0 THEN Zero
  ELSE IF Len(s) = 1 THEN s[1]
  ELSE LET t == Tuple(s)
           half == Len(t) \div 2
       IN Add(SumSeq(SubSeq(t, 1, half)), SumSeq(SubSeq(t, half + 1, Len(t))))

\* round2: Math.round((val || 0) * 100) / 100
round2(val) == Div(Round(Mul(NumOr(val, Zero), I(100))), I(100))

\* ------------------------------------------------------------------------
\* Strings
\* ------------------------------------------------------------------------
\* stands for a skill_level value that is not a string (e.g. a number in an
\* inline task); calling toLowerCase on it throws a TypeError
NonString == "<non-string>"

\* the message of the TypeError of that call
ThrownMessage == "(skillLevel || 'technician').toLowerCase is not a function"

\* String.prototype.toLowerCase on the skill labels in use
ToLowerCase(s) ==
  CASE s = "Specialist" -> "specialist"
    [] s = "Engineer" -> "engineer"
    [] s = "Technician" -> "technician"
    [] OTHER -> s

\* ------------------------------------------------------------------------
\* runAnalysis helpers
\* ------------------------------------------------------------------------
\* getLaborRate(scenario, skillLevel)
getLaborRate(scenario, skillLevel) ==
  LET key == ToLowerCase(IF skillLevel = "" THEN "technician" ELSE skillLevel)
  IN CASE key = "specialist" -> I(scenario.labor_rate_specialist)
       [] key = "engineer" -> I(scenario.labor_rate_engineer)
       [] OTHER -> I(scenario.labor_rate)

\* getPartCost(priceMap, partNumber, quantity, discountPct)
getPartCost(priceMap, partNumber, quantity, discountPct) ==
  IF partNumber = "" \/ partNumber \notin DOMAIN priceMap THEN Zero
  ELSE LET unitPrice == I(priceMap[partNumber])
           discount == Div(I(discountPct), I(100))
       IN Mul(Mul(unitPrice, Sub(One, discount)), I(quantity))

\* getDefaultHours(unit)
getDefaultHours(unit) ==
  LET appType == IF unit.application_type = "" THEN "prime" ELSE unit.application_type
      byType == CASE appType = "standby" -> unit.default_annual_hours_standby
                  [] appType = "prime" -> unit.default_annual_hours_prime
                  [] appType = "ltp" -> unit.default_annual_hours_ltp
                  [] appType = "continuous" -> unit.default_annual_hours_continuous
                  [] OTHER -> NULL
  IN OrElse(byType, OrElse(unit.default_annual_hours_prime, 6500))

\* unit.annual_hours || getDefaultHours(unit)
UnitHours(unit) == OrElse(unit.annual_hours, getDefaultHours(unit))

\* totalUnits = fleetUnits.reduce((sum, u) => sum + u.quantity, 0)
TotalUnits(fleetUnits) ==
  SumSeq([i \in 1..Len(fleetUnits) |-> I(fleetUnits[i].quantity)])

\* totalKw
TotalKw(fleetUnits) ==
  SumSeq([i \in 1..Len(fleetUnits) |->
            Mul(I(fleetUnits[i].power_rating_kw), I(fleetUnits[i].quantity))])

\* avgAnnualHours: quantity-weighted mean of the unit hours
AvgAnnualHours(fleetUnits) ==
  LET totalWeightedHours ==
        SumSeq([i \in 1..Len(fleetUnits) |->
                  Mul(I(UnitHours(fleetUnits[i])), I(fleetUnits[i].quantity))])
      totalUnits == TotalUnits(fleetUnits)
  IN IF Gt(totalUnits, Zero) THEN Div(totalWeightedHours, totalUnits) ELSE Zero

\* a chain that deviates from the task loop: the hours-based rule is tried
\* before the one-time flag
ServicesPerYearHoursFirst(task, totalUnits, avgAnnualHours) ==
  IF Truthy(task.interval_hours)
    THEN Div(Mul(totalUnits, avgAnnualHours), I(task.interval_hours))
  ELSE IF Truthy(task.is_one_time) THEN totalUnits
  ELSE IF Truthy(task.interval_months)
    THEN Mul(totalUnits, Div(I(12), I(task.interval_months)))
  ELSE Zero

\* servicesPerYear of one task (the if / else-if chain of the task loop)
ServicesPerYear(task, totalUnits, avgAnnualHours) ==
  IF Truthy(task.is_one_time) THEN totalUnits
  ELSE IF Truthy(task.interval_hours)
    THEN Div(Mul(totalUnits, avgAnnualHours), I(task.interval_hours))
  ELSE IF Truthy(task.interval_months)
    THEN Mul(totalUnits, Div(I(12), I(task.interval_months)))
  ELSE Zero

\* a part loop that deviates from the task loop: optional parts are costed too
AllParts(task) == task.parts

\* the parts that enter the base calculation (optional parts are skipped)
BaseParts(task) == SelectSeq(task.parts, LAMBDA p : ~Truthy(p.is_optional))

\* partDetails rows of one task
PartDetails(task, priceMap, partsDiscount) ==
  LET ps == BaseParts(task)
  IN Tuple([i \in 1..Len(ps) |->
       LET cost == getPartCost(priceMap, ps[i].part_number, ps[i].quantity, partsDiscount)
       IN [part_number |-> ps[i].part_number,
           quantity |-> ps[i].quantity,
           unit_cost |-> IF ps[i].part_number \in DOMAIN priceMap
                           THEN I(priceMap[ps[i].part_number]) ELSE Zero,
           discounted_cost |-> Div(cost, I(OrElse(ps[i].quantity, 1))),
           total_cost_per_service |-> cost]])

\* partsPerService of one task: the sum over its partDetails rows
PartsPerService(partDetails) ==
  SumSeq([i \in 1..Len(partDetails) |-> partDetails[i].total_cost_per_service])

\* the rest of one iteration of the task loop once servicesPerYear, laborRate
\* and partDetails are known: the unrounded figures added to the totals and
\* the row pushed on taskBreakdown
TaskRow(task, servicesPerYear, laborRate, partDetails) ==
  LET laborHoursPerYear == Mul(servicesPerYear, I(task.labor_hours))
      laborCostPerYear == Mul(laborHoursPerYear, laborRate)
      partsPerService == PartsPerService(partDetails)
      partsCostPerYear == Mul(partsPerService, servicesPerYear)
  IN [laborHoursPerYear |-> laborHoursPerYear,
      laborCostPerYear |-> laborCostPerYear,
      partsCostPerYear |-> partsCostPerYear,
      row |-> [task_id |-> task.id,
               is_one_time |-> Truthy(task.is_one_time),
               interval_hours |-> task.interval_hours,
               interval_months |-> task.interval_months,
               services_per_year |-> round2(servicesPerYear),
               labor_hours_per_service |-> task.labor_hours,
               labor_hours_per_year |-> round2(laborHoursPerYear),
               labor_rate |-> laborRate,
               labor_cost_per_year |-> round2(laborCostPerYear),
               parts_cost_per_service |-> round2(partsPerService),
               parts_cost_per_year |-> round2(partsCostPerYear),
               total_cost_per_year |-> round2(Add(laborCostPerYear, partsCostPerYear)),
               parts |-> partDetails]]

\* one iteration of the task loop
TaskCalc(task, scenario, priceMap, totalUnits, avgAnnualHours) ==
  TaskRow(task, ServicesPerYear(task, totalUnits, avgAnnualHours),
          getLaborRate(scenario, task.skill_level),
          PartDetails(task, priceMap, scenario.parts_discount_pct))

\* a staffing formula that deviates from the code: it divides without
\* testing availableHoursPerTech > 0
TechniciansNeededUnguarded(totalAnnualLaborHours, availableHoursPerTech) ==
  Ceil(Div(Mul(totalAnnualLaborHours, Q(115, 100)), availableHoursPerTech))

\* staffing: techniciansNeeded
TechniciansNeeded(totalAnnualLaborHours, availableHoursPerTech) ==
  IF Gt(availableHoursPerTech, Zero)
    THEN Ceil(Div(Mul(totalAnnualLaborHours, Q(115, 100)), availableHoursPerTech))
    ELSE Zero

\* fuel rate tier of one unit, chosen by duty cycle
FuelRate(unit) ==
  LET dutyCycle == NumOr(unit.duty_cycle, Q(3, 4))
  IN IF Ge(dutyCycle, Q(85, 100))
       THEN OrElse(unit.fuel_consumption_rate_full, 0)
     ELSE IF Ge(dutyCycle, Q(6, 10))
       THEN OrElse(unit.fuel_consumption_rate_75,
                   OrElse(unit.fuel_consumption_rate_full, 0))
     ELSE OrElse(unit.fuel_consumption_rate_50,
                 OrElse(unit.fuel_consumption_rate_75,
                        OrElse(unit.fuel_consumption_rate_full, 0)))

\* unitFuelCost = fuelRate * hours * scenario.fuel_cost_per_unit * unit.quantity
UnitFuelCost(unit, scenario) ==
  Mul(Mul(Mul(I(FuelRate(unit)), I(UnitHours(unit))), I(scenario.fuel_cost_per_unit)),
      I(unit.quantity))

\* fuelDetails rows (empty unless scenario.include_fuel_costs)
FuelDetails(scenario, fleetUnits) ==
  IF Truthy(scenario.include_fuel_costs)
    THEN [i \in 1..Len(fleetUnits) |->
            [quantity |-> fleetUnits[i].quantity,
             annual_hours |-> UnitHours(fleetUnits[i]),
             duty_cycle |-> NumOr(fleetUnits[i].duty_cycle, Q(3, 4)),
             fuel_rate |-> FuelRate(fleetUnits[i]),
             fuel_unit |-> IF fleetUnits[i].fuel_consumption_unit = ""
                             THEN "therms/hr" ELSE fleetUnits[i].fuel_consumption_unit,
             annual_fuel_cost |-> round2(UnitFuelCost(fleetUnits[i], scenario))]]
    ELSE <<>>

\* an annual fuel cost that deviates from the code: the units are costed
\* whatever the fuel switch says
AnnualFuelCostUnguarded(scenario, fleetUnits) ==
  SumSeq([i \in 1..Len(fleetUnits) |-> UnitFuelCost(fleetUnits[i], scenario)])

\* annualFuelCost
AnnualFuelCost(scenario, fleetUnits) ==
  IF Truthy(scenario.include_fuel_costs)
    THEN SumSeq([i \in 1..Len(fleetUnits) |-> UnitFuelCost(fleetUnits[i], scenario)])
    ELSE Zero

\* a schedule loop that deviates from the code: it stops at an event landing
\* on the horizon year (year >= analysisPeriod) instead of beyond it
ScheduleLoopBeforeHorizon(r, replacementsOverPeriod, yearsPerReplacement, analysisPeriod, costPerReplacement, inflationRate) ==
  LET yearOf(k) == Ceil(Mul(yearsPerReplacement, I(k)))
      pushed == {k \in r..replacementsOverPeriod[1] :
                   \A j \in r..k : ~Ge(yearOf(j), I(analysisPeriod))}
  IN Tuple([i \in 1..Cardinality(pushed) |->
       LET year == yearOf(r + i - 1)[1]
           inflatedCost == Mul(costPerReplacement, Pow(Add(One, inflationRate), year))
       IN [replacement_number |-> r + i - 1,
           year |-> year,
           inflated_cost |-> inflatedCost,
           estimated_cost |-> round2(inflatedCost)]])

\* the schedule loop of one (lifecycle, unit) pair, from iteration r on:
\*   for (r = 1; r <= replacementsOverPeriod; r++) { year = ceil(ypr * r);
\*     if (year > analysisPeriod) break; push {r, year, round2(inflatedCost)} }
\* An iteration pushes its entry when neither it nor an earlier one takes the
\* break (replacementsOverPeriod is finite: the caller skips a pair whose
\* life or hours are not positive)
ScheduleLoop(r, replacementsOverPeriod, yearsPerReplacement, analysisPeriod, costPerReplacement, inflationRate) ==
  LET yearOf(k) == Ceil(Mul(yearsPerReplacement, I(k)))
      pushed == {k \in r..replacementsOverPeriod[1] :
                   \A j \in r..k : ~Gt(yearOf(j), I(analysisPeriod))}
  IN Tuple([i \in 1..Cardinality(pushed) |->
       LET year == yearOf(r + i - 1)[1]
           inflatedCost == Mul(costPerReplacement, Pow(Add(One, inflationRate), year))
       IN [replacement_number |-> r + i - 1,
           year |-> year,
           inflated_cost |-> inflatedCost,
           estimated_cost |-> round2(inflatedCost)]])

\* the body of the inner loop of the component schedule for one matching
\* unit: <<>> when the pair is skipped, else the one pushed entry
ComponentEntry(lifecycle, unit, scenario, priceMap) ==
  LET hours == UnitHours(unit)
      analysisPeriod == Coalesce(scenario.analysis_period_years, 0)
      inflationRate == Div(I(scenario.inflation_rate_pct), I(100))
  IN IF hours <= 0 \/ Coalesce(lifecycle.expected_life_hours, 0) <= 0 THEN <<>>
     ELSE LET yearsPerReplacement == Div(I(lifecycle.expected_life_hours), I(hours))
              replacementsOverPeriod == Floor(Div(I(analysisPeriod), yearsPerReplacement))
          IN IF Le(replacementsOverPeriod, Zero) THEN <<>>
             ELSE LET laborRate == getLaborRate(scenario, "specialist")
                      laborCost == Mul(I(lifecycle.replacement_labor_hours), laborRate)
                      partsCost == getPartCost(priceMap, lifecycle.component_name, 1,
                                               scenario.parts_discount_pct)
                      costPerReplacement == Add(laborCost, partsCost)
                      schedule == ScheduleLoop(1, replacementsOverPeriod,
                                               yearsPerReplacement, analysisPeriod,
                                               costPerReplacement, inflationRate)
                  IN <<[component_name |-> lifecycle.component_name,
                        model_number |-> unit.model_number,
                        quantity |-> unit.quantity,
                        expected_life_hours |-> lifecycle.expected_life_hours,
                        years_per_replacement |-> round2(yearsPerReplacement),
                        replacements_over_period |-> Len(schedule),
                        labor_hours |-> lifecycle.replacement_labor_hours,
                        cost_per_replacement |-> round2(costPerReplacement),
                        schedule |-> schedule]>>

\* concatenation of a sequence of sequences
RECURSIVE Flatten(_)
Flatten(ss) == IF ss = <<>> THEN <<>> ELSE Head(ss) \o Flatten(Tail(ss))

\* componentReplacements: for each lifecycle, for each fleet unit of the
\* same equipment model, the entry of the pair
ComponentReplacements(data) ==
  Flatten(Tuple([l \in 1..Len(data.componentLifecycles) |->
    Flatten(Tuple([u \in 1..Len(data.fleetUnits) |->
      IF data.fleetUnits[u].equipment_model_id
           = data.componentLifecycles[l].equipment_model_id
        THEN ComponentEntry(data.componentLifecycles[l], data.fleetUnits[u],
                            data.scenario, data.priceMap)
        ELSE <<>>]))]))

\* totalComponentCostOverPeriod: the sum of every inflatedCost of every schedule
TotalComponentCostOverPeriod(components) ==
  SumSeq([c \in 1..Len(components) |->
    SumSeq([k \in 1..Len(components[c].schedule) |->
              components[c].schedule[k].inflated_cost])])

\* annualDowntimeCost
AnnualDowntimeCost(scenario, pmTasks, taskBreakdown, totalAnnualLaborHours) ==
  IF Truthy(scenario.include_downtime_costs)
    THEN LET totalServicesPerYear ==
               SumSeq([i \in 1..Len(taskBreakdown) |-> taskBreakdown[i].services_per_year])
             avgDowntimePerService ==
               IF Len(pmTasks) > 0
                 THEN Mul(Div(totalAnnualLaborHours, totalServicesPerYear), Q(3, 2))
                 ELSE Zero
             totalDowntimeHours == Mul(totalServicesPerYear, avgDowntimePerService)
         IN Mul(totalDowntimeHours, I(scenario.downtime_cost_per_hour))
    ELSE Zero

\* a year sum that deviates from the year loop: the events are not multiplied
\* by the quantity of the unit group
YearComponentCostOneUnit(components, year) ==
  SumSeq([c \in 1..Len(components) |->
    SumSeq([k \in 1..Len(components[c].schedule) |->
      IF components[c].schedule[k].year = year
        THEN components[c].schedule[k].estimated_cost
        ELSE Zero])])

\* yearComponentCost of one projection year
YearComponentCost(components, year) ==
  SumSeq([c \in 1..Len(components) |->
    SumSeq([k \in 1..Len(components[c].schedule) |->
      IF components[c].schedule[k].year = year
        THEN Mul(components[c].schedule[k].estimated_cost, I(components[c].quantity))
        ELSE Zero])])

\* unitsCommissioned of one projection year
UnitsCommissioned(fleetUnits, year) ==
  SumSeq([i \in 1..Len(fleetUnits) |->
    LET unit == fleetUnits[i]
        rate == NumOr(unit.commissioning_rate_per_month, One)
        monthsToFullDeploy == Ceil(Div(I(unit.quantity), rate))
        yearsToFullDeploy == Div(monthsToFullDeploy, I(12))
    IN IF Ge(I(year), Ceil(yearsToFullDeploy)) THEN I(unit.quantity)
       ELSE Min(I(unit.quantity), Floor(Mul(I(year * 12), rate)))])

\* oneTimeCosts: the sum of the (rounded) total_cost_per_year of the
\* breakdown rows flagged is_one_time
OneTimeCosts(taskBreakdown) ==
  LET rows == SelectSeq(taskBreakdown, LAMBDA t : t.is_one_time)
  IN SumSeq([i \in 1..Len(rows) |-> rows[i].total_cost_per_year])

\* the discount multiplier of a projection year that deviates from the
\* year loop: year 1 is left undiscounted
DiscountMultiplierFromZero(discountRate, year) == Pow(Add(One, discountRate), year - 1)

\* discountMultiplier of the year loop: Math.pow(1 + discountRate, year)
DiscountMultiplier(discountRate, year) == Pow(Add(One, discountRate), year)

\* a year total that deviates from the year loop: fuel is left out
YearTotalCostWithoutFuel(yearMaintenanceCost, yearFuelCost, yearDowntimeCost, yearComponentCost) ==
  Add(Add(yearMaintenanceCost, yearDowntimeCost), yearComponentCost)

\* yearTotalCost of the year loop
YearTotalCost(yearMaintenanceCost, yearFuelCost, yearDowntimeCost, yearComponentCost) ==
  Add(Add(Add(yearMaintenanceCost, yearFuelCost), yearDowntimeCost), yearComponentCost)

\* the years visited by  for (let year = 1; year <= analysisPeriod; year++) :
\* none when the period is zero or negative
YearLoop(analysisPeriod) == 1..(IF analysisPeriod > 0 THEN analysisPeriod ELSE 0)

\* the unrounded figures of one iteration of the year loop
YearFigures(year, scenario, fleetUnits, taskBreakdown, components, totalAnnualMaintenanceCost, annualFuelCost, annualDowntimeCost) ==
  LET inflationRate == Div(I(scenario.inflation_rate_pct), I(100))
      discountRate == Div(I(scenario.discount_rate_pct), I(100))
      inflationMultiplier == Pow(Add(One, inflationRate), year - 1)
      discountMultiplier == DiscountMultiplier(discountRate, year)
      oneTimeCosts == OneTimeCosts(taskBreakdown)
      yearMaintenanceCost ==
        IF year > 1
          THEN Sub(Mul(totalAnnualMaintenanceCost, inflationMultiplier),
                   Mul(oneTimeCosts, inflationMultiplier))
          ELSE Mul(totalAnnualMaintenanceCost, inflationMultiplier)
      yearFuelCost ==
        IF Truthy(scenario.include_fuel_costs)
          THEN Mul(annualFuelCost, inflationMultiplier) ELSE Zero
      yearDowntimeCost ==
        IF Truthy(scenario.include_downtime_costs)
          THEN Mul(annualDowntimeCost, inflationMultiplier) ELSE Zero
      yearComponentCost == YearComponentCost(components, year)
      yearTotalCost ==
        YearTotalCost(yearMaintenanceCost, yearFuelCost, yearDowntimeCost,
                      yearComponentCost)
  IN [maintenance |-> yearMaintenanceCost,
      fuel |-> yearFuelCost,
      downtime |-> yearDowntimeCost,
      component |-> yearComponentCost,
      total |-> yearTotalCost,
      npv |-> Div(yearTotalCost, discountMultiplier)]

\* the end of runAnalysis: the returned object, given the local variables
\* left by the fleet aggregates (fleet), the task loop (tasks), the overhead,
\* staffing, fuel, component and downtime sections (costs) and the unrounded
\* figures of the year loop (figs)
RunResult(data, fleet, tasks, costs, figs) ==
  LET scenario == data.scenario
      analysisPeriod == Coalesce(scenario.analysis_period_years, 0)
      cumulative == Tuple([y \in YearLoop(analysisPeriod) |->
                       SumSeq([k \in 1..y |-> figs[k].total])])
      cumulativeCost == SumSeq([k \in YearLoop(analysisPeriod) |-> figs[k].total])
      npvTotal == SumSeq([k \in YearLoop(analysisPeriod) |-> figs[k].npv])
      annualProjections ==
        Tuple([y \in YearLoop(analysisPeriod) |->
          LET unitsCommissioned == UnitsCommissioned(data.fleetUnits, y)
              yearLaborHoursScaled ==
                IF Gt(fleet.totalUnits, Zero)
                  THEN Mul(tasks.totalAnnualLaborHours,
                           Div(unitsCommissioned, fleet.totalUnits))
                  ELSE Zero
          IN [year |-> y,
              units_commissioned |-> unitsCommissioned,
              technicians_needed |->
                TechniciansNeeded(yearLaborHoursScaled, costs.availableHoursPerTech),
              maintenance_cost |-> round2(figs[y].maintenance),
              fuel_cost |-> round2(figs[y].fuel),
              downtime_cost |-> round2(figs[y].downtime),
              component_replacement_cost |-> round2(figs[y].component),
              total_cost |-> round2(figs[y].total),
              cumulative_cost |-> round2(cumulative[y]),
              npv_of_year |-> round2(figs[y].npv)]])
      totalAnnualKwh == Mul(fleet.totalKw, fleet.avgAnnualHours)
      costPerKwh == IF Gt(totalAnnualKwh, Zero)
                      THEN Div(costs.totalAnnualMaintenanceCost, totalAnnualKwh) ELSE Zero
  IN [\* the unrounded local variables of the run, in the order the code
      \* computes them
      locals |->
        [totalUnits |-> fleet.totalUnits,
         totalAnnualLaborHours |-> tasks.totalAnnualLaborHours,
         totalAnnualLaborCost |-> tasks.totalAnnualLaborCost,
         totalAnnualPartsCost |-> tasks.totalAnnualPartsCost,
         totalAnnualMaintenanceCost |-> costs.totalAnnualMaintenanceCost,
         annualFuelCost |-> costs.annualFuelCost,
         annualDowntimeCost |-> costs.annualDowntimeCost,
         totalComponentCostOverPeriod |-> costs.totalComponentCostOverPeriod,
         yearFigures |-> figs,
         cumulativeCost |-> cumulativeCost,
         npvTotal |-> npvTotal],
      threw |-> FALSE,
      scenario_id |-> scenario.id,
      fleet_summary |->
        [total_units |-> fleet.totalUnits,
         total_kw |-> round2(fleet.totalKw),
         average_annual_hours |-> round2(fleet.avgAnnualHours),
         total_annual_kwh |-> round2(totalAnnualKwh)],
      maintenance_cost_summary |->
        [annual_labor_cost |-> round2(tasks.totalAnnualLaborCost),
         annual_parts_cost |-> round2(tasks.totalAnnualPartsCost),
         annual_overhead |-> round2(costs.annualOverhead),
         overhead_markup_pct |-> scenario.overhead_markup_pct,
         total_annual_maintenance_cost |-> round2(costs.totalAnnualMaintenanceCost)],
      pm_task_breakdown |-> tasks.taskBreakdown,
      staffing |->
        [total_annual_labor_hours |-> round2(tasks.totalAnnualLaborHours),
         available_hours_per_technician |-> round2(costs.availableHoursPerTech),
         technicians_needed |-> costs.techniciansNeeded,
         utilization_without_safety |->
           IF Gt(costs.availableHoursPerTech, Zero)
             THEN round2(Mul(Div(tasks.totalAnnualLaborHours,
                                 Mul(costs.techniciansNeeded, costs.availableHoursPerTech)),
                             I(100)))
             ELSE Zero],
      fuel_summary |->
        [enabled |-> Truthy(scenario.include_fuel_costs),
         fuel_cost_per_unit |-> scenario.fuel_cost_per_unit,
         annual_fuel_cost |-> round2(costs.annualFuelCost),
         details |-> FuelDetails(scenario, data.fleetUnits)],
      downtime_summary |->
        [enabled |-> Truthy(scenario.include_downtime_costs),
         downtime_cost_per_hour |-> scenario.downtime_cost_per_hour,
         annual_downtime_cost |-> round2(costs.annualDowntimeCost)],
      component_replacements |->
        [total_cost_over_period |-> round2(costs.totalComponentCostOverPeriod),
         components |-> costs.componentReplacements],
      cost_per_kwh |-> round2(costPerKwh),
      tco |->
        [total_npv |-> round2(npvTotal),
         total_nominal |-> round2(cumulativeCost),
         analysis_period_years |-> scenario.analysis_period_years,
         average_annual_cost |-> round2(Div(cumulativeCost, I(analysisPeriod))),
         average_annual_cost_npv |-> round2(Div(npvTotal, I(analysisPeriod)))],
      annual_projections |-> annualProjections]

\* runAnalysis from the year loop on
RunFromYearLoop(data, fleet, tasks, costs) ==
  RunResult(data, fleet, tasks, costs,
    Tuple([y \in YearLoop(Coalesce(data.scenario.analysis_period_years, 0)) |->
      YearFigures(y, data.scenario, data.fleetUnits, tasks.taskBreakdown,
                  costs.componentReplacements, costs.totalAnnualMaintenanceCost,
                  costs.annualFuelCost, costs.annualDowntimeCost)]))

\* runAnalysis from the overhead section on: overhead, staffing, fuel,
\* component replacements and downtime, then the year loop
RunFromOverhead(data, fleet, tasks) ==
  LET scenario == data.scenario
      overheadMarkup == Div(I(scenario.overhead_markup_pct), I(100))
      availableHoursPerTech ==
        Mul(Mul(I(scenario.working_days_per_year), I(scenario.hours_per_day)),
            Div(I(scenario.target_utilization_pct), I(100)))
      annualMaintenanceCostBase ==
        Add(tasks.totalAnnualLaborCost, tasks.totalAnnualPartsCost)
      annualOverhead == Mul(annualMaintenanceCostBase, overheadMarkup)
      componentReplacements == ComponentReplacements(data)
  IN RunFromYearLoop(data, fleet, tasks,
       [availableHoursPerTech |-> availableHoursPerTech,
        annualOverhead |-> annualOverhead,
        totalAnnualMaintenanceCost |-> Add(annualMaintenanceCostBase, annualOverhead),
        techniciansNeeded |->
          TechniciansNeeded(tasks.totalAnnualLaborHours, availableHoursPerTech),
        annualFuelCost |-> AnnualFuelCost(scenario, data.fleetUnits),
        componentReplacements |-> componentReplacements,
        totalComponentCostOverPeriod |->
          TotalComponentCostOverPeriod(componentReplacements),
        annualDowntimeCost |->
          AnnualDowntimeCost(scenario, data.pmTasks, tasks.taskBreakdown,
                             tasks.totalAnnualLaborHours)])

\* runAnalysis from the task loop on
RunFromTaskLoop(data, fleet) ==
  LET calcs == Tuple([i \in 1..Len(data.pmTasks) |->
                 TaskCalc(data.pmTasks[i], data.scenario, data.priceMap,
                          fleet.totalUnits, fleet.avgAnnualHours)])
  IN RunFromOverhead(data, fleet,
       [taskBreakdown |-> Tuple([i \in 1..Len(data.pmTasks) |-> calcs[i].row]),
        totalAnnualLaborHours |->
          SumSeq([i \in 1..Len(calcs) |-> calcs[i].laborHoursPerYear]),
        totalAnnualLaborCost |->
          SumSeq([i \in 1..Len(calcs) |-> calcs[i].laborCostPerYear]),
        totalAnnualPartsCost |->
          SumSeq([i \in 1..Len(calcs) |-> calcs[i].partsCostPerYear])])

\* runAnalysis(data): the result record, or [threw |-> TRUE] when the task
\* loop throws (getLaborRate on a skill_level that is not a string)
runAnalysis(data) ==
  IF \E i \in 1..Len(data.pmTasks) : data.pmTasks[i].skill_level = NonString
    THEN [threw |-> TRUE]
    ELSE RunFromTaskLoop(data,
           [totalUnits |-> TotalUnits(data.fleetUnits),
            totalKw |-> TotalKw(data.fleetUnits),
            avgAnnualHours |-> AvgAnnualHours(data.fleetUnits)])

\* the instants the clock is read at (milliseconds; toISOString writes each
\* instant as a different string)
Instants == 0..MaxInstant

\* the object runAnalysis returns when the clock reads now: runAnalysis(data)
\* above is that object without the one field read from the clock,
\*   calculated_at: new Date().toISOString()
runAnalysisAt(data, now) ==
  LET returned == runAnalysis(data)
  IN IF returned.threw THEN returned ELSE returned @@ [calculated_at |-> now]

\* ------------------------------------------------------------------------
\* calculateFullAnalysis (services/calculator.js)
\* ------------------------------------------------------------------------
\* the config record of a resolved input: resolveScenario's field mapping
\* (fuel_consumption_rate is the 75 % rate, every part carries the unit_price
\* of the price list or null), each task keeping its own enabled flag
ConfigOf(data) ==
  [fleet_units |->
     Tuple([i \in 1..Len(data.fleetUnits) |->
       [quantity |-> data.fleetUnits[i].quantity,
        annual_hours |-> data.fleetUnits[i].annual_hours,
        duty_cycle |-> data.fleetUnits[i].duty_cycle,
        commissioning_rate_per_month |-> data.fleetUnits[i].commissioning_rate_per_month,
        power_rating_kw |-> data.fleetUnits[i].power_rating_kw,
        fuel_consumption_rate |-> data.fleetUnits[i].fuel_consumption_rate_75,
        fuel_consumption_unit |-> data.fleetUnits[i].fuel_consumption_unit]]),
   pm_tasks |->
     Tuple([i \in 1..Len(data.pmTasks) |->
       [data.pmTasks[i] EXCEPT !.parts =
          Tuple([k \in 1..Len(data.pmTasks[i].parts) |->
            [part_number |-> data.pmTasks[i].parts[k].part_number,
             quantity |-> data.pmTasks[i].parts[k].quantity,
             is_optional |-> data.pmTasks[i].parts[k].is_optional,
             unit_price |->
               IF data.pmTasks[i].parts[k].part_number \in DOMAIN data.priceMap
                 THEN data.priceMap[data.pmTasks[i].parts[k].part_number]
                 ELSE NULL]])]]),
   component_lifecycles |-> data.componentLifecycles,
   labor_rate |-> data.scenario.labor_rate,
   labor_rate_specialist |-> data.scenario.labor_rate_specialist,
   labor_rate_engineer |-> data.scenario.labor_rate_engineer,
   parts_discount_pct |-> data.scenario.parts_discount_pct,
   overhead_markup_pct |-> data.scenario.overhead_markup_pct,
   working_days_per_year |-> data.scenario.working_days_per_year,
   hours_per_day |-> data.scenario.hours_per_day,
   target_utilization_pct |-> data.scenario.target_utilization_pct,
   analysis_period_years |-> data.scenario.analysis_period_years,
   discount_rate_pct |-> data.scenario.discount_rate_pct,
   inflation_rate_pct |-> data.scenario.inflation_rate_pct,
   fuel_cost_per_unit |-> data.scenario.fuel_cost_per_unit,
   downtime_cost_per_hour |-> data.scenario.downtime_cost_per_hour,
   include_fuel_costs |-> Truthy(data.scenario.include_fuel_costs),
   include_downtime_costs |-> Truthy(data.scenario.include_downtime_costs)]

\* the labor rate of a task: exact match on the skill label
FullTaskRate(task, config) ==
  IF task.skill_level = "engineer" THEN I(config.labor_rate_engineer)
  ELSE IF task.skill_level = "specialist" THEN I(config.labor_rate_specialist)
  ELSE I(config.labor_rate)

\* partsPerService: every part of the task, priced or not
FullPartsPerService(task, partsDiscount) ==
  SumSeq([k \in 1..Len(task.parts) |->
    Mul(Mul(I(OrElse(task.parts[k].unit_price, 0)), I(OrElse(task.parts[k].quantity, 1))),
        Sub(One, partsDiscount))])

\* what an active task adds to the totals and the row it pushes, given the
\* figures of its branch (one-time or recurring)
FullTaskAdd(type, interval, servicesPerYear, laborHoursPerYear, partsCostPerYear, rate) ==
  LET laborCostPerYear == Mul(laborHoursPerYear, rate)
  IN [add |-> [services |-> servicesPerYear, laborHours |-> laborHoursPerYear,
               laborCost |-> laborCostPerYear, partsCost |-> partsCostPerYear],
      row |-> [status |-> "active", type |-> type, interval_hours |-> interval,
               services_per_year |-> servicesPerYear,
               labor_hours_per_year |-> Div(Round(Mul(laborHoursPerYear, I(10))), I(10)),
               labor_cost_per_year |-> Round(laborCostPerYear),
               parts_cost_per_year |-> Round(partsCostPerYear),
               total_cost_per_year |-> Round(Add(laborCostPerYear, partsCostPerYear))]]

\* one iteration of the task loop of calculateFullAnalysis: what it adds to
\* the totals and the row it pushes
FullTaskCalc(task, config, totalUnits, totalAnnualOperatingHours) ==
  LET zero == [services |-> Zero, laborHours |-> Zero, laborCost |-> Zero,
               partsCost |-> Zero]
      zeroRow(status) ==
        [status |-> status, interval_hours |-> task.interval_hours,
         services_per_year |-> Zero, labor_hours_per_year |-> Zero,
         labor_cost_per_year |-> Zero, parts_cost_per_year |-> Zero,
         total_cost_per_year |-> Zero]
      rate == FullTaskRate(task, config)
      partsDiscount == Div(I(config.parts_discount_pct), I(100))
      partsPerService == FullPartsPerService(task, partsDiscount)
      interval == OrElse(task.interval_hours, 500)
      servicesPerYear == Round(Div(totalAnnualOperatingHours, I(interval)))
  IN IF Truthy(task.is_automated)
       THEN [add |-> zero, row |-> zeroRow("automated")]
     ELSE IF task.enabled = FALSE
       THEN [add |-> zero, row |-> zeroRow("disabled")]
     ELSE IF Truthy(task.is_one_time)
       THEN FullTaskAdd("one-time", task.interval_hours, totalUnits,
                        Div(Mul(totalUnits, I(task.labor_hours)), I(3)),
                        Div(Mul(totalUnits, partsPerService), I(3)), rate)
     ELSE FullTaskAdd("recurring", interval, servicesPerYear,
                      Mul(servicesPerYear, I(task.labor_hours)),
                      Mul(servicesPerYear, partsPerService), rate)

\* the commissioning rate the fleet loop uses: rate || qty
FleetLoopRate(unit) ==
  NumOr(unit.commissioning_rate_per_month, I(OrElse(unit.quantity, 1)))

\* maxCommissioningMonths
MaxCommissioningMonths(fleet_units) ==
  LET months == Tuple([i \in 1..Len(fleet_units) |->
                  IF Gt(FleetLoopRate(fleet_units[i]), Zero)
                    THEN Ceil(Div(I(OrElse(fleet_units[i].quantity, 1)),
                                  FleetLoopRate(fleet_units[i])))
                    ELSE Zero])
      maxOf[n \in 0..Len(months)] == IF n = 0 THEN Zero ELSE Max(maxOf[n - 1], months[n])
  IN maxOf[Len(months)]

\* normalizedFuelRate of one unit: CFH / 100 = therms per hour
NormalizedFuelRate(unit) ==
  LET fuelRate == I(OrElse(unit.fuel_consumption_rate, 0))
      fuelUnit == IF unit.fuel_consumption_unit = "" THEN "CFH"
                  ELSE unit.fuel_consumption_unit
  IN IF fuelUnit = "CFH" THEN Div(fuelRate, I(100)) ELSE fuelRate

\* a ramp that deviates from the code: always 12 months, however long the
\* fleet takes to commission
StaffingTimelineTwelveMonths(fleet_units, totalUnits, techsRequired) ==
  Tuple([m \in 1..12 |->
    LET unitsActive ==
          SumSeq([i \in 1..Len(fleet_units) |->
            LET rate == NumOr(fleet_units[i].commissioning_rate_per_month,
                              I(OrElse(fleet_units[i].quantity, 1)))
            IN Min(I(OrElse(fleet_units[i].quantity, 1)), Mul(rate, I(m)))])
    IN [month |-> m,
        units_active |-> unitsActive,
        technicians |-> IF Gt(totalUnits, Zero)
                          THEN Ceil(Mul(Div(unitsActive, totalUnits), techsRequired))
                          ELSE Zero]])

\* the staffing ramp timeline
StaffingTimeline(fleet_units, totalUnits, techsRequired) ==
  LET rampMonths == Min(I(36), Max(I(12), Add(MaxCommissioningMonths(fleet_units), I(6))))[1]
  IN Tuple([m \in 1..rampMonths |->
       LET unitsActive ==
             SumSeq([i \in 1..Len(fleet_units) |->
               LET rate == NumOr(fleet_units[i].commissioning_rate_per_month,
                                 I(OrElse(fleet_units[i].quantity, 1)))
               IN Min(I(OrElse(fleet_units[i].quantity, 1)), Mul(rate, I(m)))])
       IN [month |-> m,
           units_active |-> unitsActive,
           technicians |-> IF Gt(totalUnits, Zero)
                             THEN Ceil(Mul(Div(unitsActive, totalUnits), techsRequired))
                             ELSE Zero]])

\* one entry of componentReplacements of calculateFullAnalysis
FullComponentEntry(comp, config, avgAnnualHours, totalUnits) ==
  LET period == Coalesce(config.analysis_period_years, 0)
      lifeHours == OrElse(comp.expected_life_hours, 50000)
      yearsToReplacement == Div(I(lifeHours), avgAnnualHours)
      replacementsInPeriod == Floor(Div(I(period), yearsToReplacement))
      laborCost == Mul(I(OrElse(comp.replacement_labor_hours, 8)), I(config.labor_rate))
      \* component_lifecycles rows have no replacement_cost column
      totalPerReplacement == Add(Zero, laborCost)
      count == IF IsFinite(replacementsInPeriod) /\ replacementsInPeriod[1] > 0
                 THEN replacementsInPeriod[1] ELSE 0
      all == Tuple([r \in 1..count |->
                [year |-> Ceil(Mul(yearsToReplacement, I(r)))[1],
                 cost |-> totalPerReplacement]])
      schedule == SelectSeq(all, LAMBDA e : e.year <= period)
  IN [component_name |-> comp.component_name,
      expected_life_hours |-> lifeHours,
      replacements_in_period |-> replacementsInPeriod,
      cost_per_replacement |-> Round(totalPerReplacement),
      total_cost |-> Round(Mul(Mul(totalPerReplacement, replacementsInPeriod), totalUnits)),
      schedule |-> schedule]

\* a discount factor that deviates from the projection loop: year 1 is left
\* undiscounted
DiscountFactorFromZero(discountRate, year) == Pow(Add(One, discountRate), year - 1)

\* discountFactor of the projection loop: Math.pow(1 + discountRate, year)
DiscountFactor(discountRate, year) == Pow(Add(One, discountRate), year)

\* the end of calculateFullAnalysis: the returned record, with the unrounded
\* accumulators of the function under locals, given the local variables left
\* by the fleet loop (fleet), the task loop (tasks), the cost sections (costs)
\* and the unrounded figures of the projection loop (years)
FullResult(config, fleet, tasks, costs, years) ==
  LET period == Coalesce(config.analysis_period_years, 0)
      annualEnergyEfficiencyCost == Mul(fleet.totalPowerKw, Q(2, 100))
      annualEnvironmentalComplianceCost == Mul(fleet.totalUnits, I(50))
      annualTrainingCost == Mul(costs.techsRequired, I(2000))
      totalEquipmentValue == Mul(fleet.totalPowerKw, I(1000))
      annualInsuranceCost == Mul(totalEquipmentValue, Q(15, 1000))
      annualWarrantyCost == Mul(totalEquipmentValue, Q(5, 1000))
      \* cumulativeCost and npv after the first n iterations of the loop
      cumulativeCost(n) == SumSeq([k \in 1..n |-> years[k].yearTotal])
      npv(n) == SumSeq([k \in 1..n |-> years[k].discounted])
      yearlyProjection ==
        Tuple([year \in YearLoop(period) |->
          [year |-> year,
           maintenance |-> Round(years[year].maintenance),
           fuel |-> Round(years[year].fuel),
           downtime |-> Round(years[year].downtime),
           replacements |-> Round(years[year].replacements),
           total |-> Round(years[year].yearTotal),
           cumulative |-> Round(cumulativeCost(year)),
           npv_cumulative |-> Round(npv(year))]])
      last == IF period > 0 THEN period ELSE 0
  IN [\* the unrounded accumulators, in the order the code computes them
      locals |-> [totalUnits |-> fleet.totalUnits,
                  totalAnnualServices |-> tasks.totalAnnualServices,
                  totalAnnualLaborHours |-> tasks.totalAnnualLaborHours,
                  totalAnnualLaborCost |-> tasks.totalAnnualLaborCost,
                  totalAnnualPartsCost |-> tasks.totalAnnualPartsCost,
                  totalAnnualMaintenanceCost |-> costs.totalAnnualMaintenanceCost,
                  annualFuelCost |-> costs.annualFuelCost,
                  annualDowntimeCost |-> costs.annualDowntimeCost,
                  years |-> years,
                  cumulativeCost |-> cumulativeCost(last),
                  npv |-> npv(last)],
      summary |->
        [total_units |-> fleet.totalUnits,
         avg_annual_hours |-> Round(fleet.avgAnnualHours),
         total_annual_operating_hours |-> Round(fleet.totalAnnualOperatingHours),
         annual_maintenance_cost |-> Round(costs.totalAnnualMaintenanceCost),
         annual_labor_cost |-> Round(tasks.totalAnnualLaborCost),
         annual_parts_cost |-> Round(tasks.totalAnnualPartsCost),
         annual_overhead |-> Round(costs.annualOverhead),
         annual_fuel_cost |-> Round(costs.annualFuelCost),
         annual_downtime_cost |-> Round(costs.annualDowntimeCost),
         annual_total_cost |->
           Round(Add(Add(Add(Add(Add(Add(Add(costs.totalAnnualMaintenanceCost,
             costs.annualFuelCost), costs.annualDowntimeCost),
             annualEnergyEfficiencyCost), annualEnvironmentalComplianceCost),
             annualTrainingCost), annualInsuranceCost), annualWarrantyCost)),
         technicians_required |-> costs.techsRequired,
         annual_services |-> tasks.totalAnnualServices,
         total_labor_hours |-> Round(tasks.totalAnnualLaborHours),
         npv_total_cost |-> Round(npv(last)),
         analysis_period_years |-> config.analysis_period_years],
      task_breakdown |-> tasks.taskBreakdown,
      yearly_projection |-> yearlyProjection,
      staffing_timeline |->
        StaffingTimeline(config.fleet_units, fleet.totalUnits, costs.techsRequired),
      component_replacements |-> costs.componentReplacements]

\* calculateFullAnalysis from the projection loop on
FullFromProjection(config, fleet, tasks, costs) ==
  LET period == Coalesce(config.analysis_period_years, 0)
      discountRate == Div(I(config.discount_rate_pct), I(100))
      inflationRate == Div(I(config.inflation_rate_pct), I(100))
      inflationFactor(year) == Pow(Add(One, inflationRate), year - 1)
      replacements(year) ==
        SumSeq([i \in 1..Len(costs.componentReplacements) |->
          SumSeq([k \in 1..Len(costs.componentReplacements[i].schedule) |->
            IF costs.componentReplacements[i].schedule[k].year = year
              THEN Mul(Mul(costs.componentReplacements[i].schedule[k].cost,
                           fleet.totalUnits),
                       inflationFactor(year))
              ELSE Zero])])
  IN FullResult(config, fleet, tasks, costs,
       Tuple([year \in YearLoop(period) |->
         LET maintenance == Mul(costs.totalAnnualMaintenanceCost, inflationFactor(year))
             fuel == Mul(costs.annualFuelCost, inflationFactor(year))
             downtime == Mul(costs.annualDowntimeCost, inflationFactor(year))
             repl == replacements(year)
             yearTotal == Add(Add(Add(maintenance, fuel), downtime), repl)
         IN [maintenance |-> maintenance, fuel |-> fuel, downtime |-> downtime,
             replacements |-> repl, yearTotal |-> yearTotal,
             discounted |-> Div(yearTotal, DiscountFactor(discountRate, year))]]))

\* calculateFullAnalysis from the overhead on: overhead, staffing, fuel,
\* downtime and component replacements, then the projection loop
FullFromOverhead(config, fleet, tasks) ==
  LET overheadMarkup == Div(I(config.overhead_markup_pct), I(100))
      utilization == Div(I(config.target_utilization_pct), I(100))
      availableHoursPerTech ==
        Mul(Mul(I(config.working_days_per_year), I(config.hours_per_day)), utilization)
      maintenanceCostBeforeOverhead ==
        Add(tasks.totalAnnualLaborCost, tasks.totalAnnualPartsCost)
      annualOverhead == Mul(maintenanceCostBeforeOverhead, overheadMarkup)
      estimatedDowntimeHours == Mul(fleet.totalAnnualOperatingHours, Q(2, 100))
  IN FullFromProjection(config, fleet, tasks,
       [annualOverhead |-> annualOverhead,
        totalAnnualMaintenanceCost |-> Add(maintenanceCostBeforeOverhead, annualOverhead),
        techsRequired |->
          IF Gt(availableHoursPerTech, Zero)
            THEN Ceil(Mul(Div(tasks.totalAnnualLaborHours, availableHoursPerTech),
                          Q(115, 100)))
            ELSE Zero,
        annualFuelCost |->
          IF config.include_fuel_costs
            THEN Mul(Mul(fleet.totalFuelConsumptionPerHour, fleet.avgAnnualHours),
                     I(config.fuel_cost_per_unit))
            ELSE Zero,
        annualDowntimeCost |->
          IF config.include_downtime_costs
            THEN Mul(estimatedDowntimeHours, I(config.downtime_cost_per_hour))
            ELSE Zero,
        componentReplacements |->
          Tuple([i \in 1..Len(config.component_lifecycles) |->
            FullComponentEntry(config.component_lifecycles[i], config,
                               fleet.avgAnnualHours, fleet.totalUnits)])])

\* calculateFullAnalysis from the task loop on
FullFromTaskLoop(config, fleet) ==
  LET calcs == Tuple([i \in 1..Len(config.pm_tasks) |->
                 FullTaskCalc(config.pm_tasks[i], config, fleet.totalUnits,
                              fleet.totalAnnualOperatingHours)])
      totalAnnualLaborHours == SumSeq([i \in 1..Len(calcs) |-> calcs[i].add.laborHours])
  IN FullFromOverhead(config, fleet,
       [totalAnnualServices |-> SumSeq([i \in 1..Len(calcs) |-> calcs[i].add.services]),
        totalAnnualLaborHours |-> totalAnnualLaborHours,
        totalAnnualLaborCost |-> SumSeq([i \in 1..Len(calcs) |-> calcs[i].add.laborCost]),
        totalAnnualPartsCost |-> SumSeq([i \in 1..Len(calcs) |-> calcs[i].add.partsCost]),
        taskBreakdown |->
          Tuple([i \in 1..Len(calcs) |->
            calcs[i].row @@
            [name |-> config.pm_tasks[i].name,
             pct_of_workload |->
               IF Gt(totalAnnualLaborHours, Zero)
                 THEN Div(Round(Mul(Div(calcs[i].row.labor_hours_per_year,
                                        totalAnnualLaborHours), I(1000))), I(10))
                 ELSE Zero]])])

\* calculateFullAnalysis(config): the fleet loop, then the rest
calculateFullAnalysis(config) ==
  LET fleet_units == config.fleet_units
      qty(u) == I(OrElse(u.quantity, 1))
      totalUnits == SumSeq([i \in 1..Len(fleet_units) |-> qty(fleet_units[i])])
      weightedAnnualHours ==
        SumSeq([i \in 1..Len(fleet_units) |->
          Mul(qty(fleet_units[i]), I(OrElse(fleet_units[i].annual_hours, 6500)))])
  IN FullFromTaskLoop(config,
       [totalUnits |-> totalUnits,
        totalPowerKw |->
          SumSeq([i \in 1..Len(fleet_units) |->
            Mul(qty(fleet_units[i]), I(OrElse(fleet_units[i].power_rating_kw, 0)))]),
        totalFuelConsumptionPerHour |->
          SumSeq([i \in 1..Len(fleet_units) |->
            Mul(Mul(qty(fleet_units[i]), NormalizedFuelRate(fleet_units[i])),
                NumOr(fleet_units[i].duty_cycle, Q(3, 4)))]),
        avgAnnualHours |->
          IF Gt(totalUnits, Zero) THEN Div(weightedAnnualHours, totalUnits) ELSE I(6500),
        totalAnnualOperatingHours |-> weightedAnnualHours])

\* ------------------------------------------------------------------------
\* Resolved input records
\* ------------------------------------------------------------------------
BaseScenario ==
  [id |-> 1, fleet_id |-> 1, pm_schedule_id |-> 1, price_list_id |-> 1,
   analysis_period_years |-> 3,
   labor_rate |-> 100, labor_rate_specialist |-> 150, labor_rate_engineer |-> 200,
   parts_discount_pct |-> 20, overhead_markup_pct |-> 0,
   working_days_per_year |-> 250, hours_per_day |-> 8, target_utilization_pct |-> 75,
   discount_rate_pct |-> 0, inflation_rate_pct |-> 0,
   fuel_cost_per_unit |-> 1, downtime_cost_per_hour |-> 10,
   include_fuel_costs |-> 1, include_downtime_costs |-> 1]

BaseUnit ==
  [equipment_model_id |-> 1, model_number |-> "G10", quantity |-> 10,
   annual_hours |-> 6500,
   application_type |-> "prime", duty_cycle |-> Q(3, 4),
   commissioning_rate_per_month |-> I(2), power_rating_kw |-> 10,
   fuel_consumption_rate_full |-> 3, fuel_consumption_rate_75 |-> 2,
   fuel_consumption_rate_50 |-> 1, fuel_consumption_unit |-> "therms/hr",
   default_annual_hours_standby |-> 200, default_annual_hours_prime |-> 6500,
   default_annual_hours_ltp |-> 1000, default_annual_hours_continuous |-> 8760]

\* a second unit group of another model, running around the clock
ContinuousUnit ==
  [BaseUnit EXCEPT !.equipment_model_id = 2, !.model_number = "G20", !.quantity = 10, !.annual_hours = 8760,
                   !.duty_cycle = Q(9, 10), !.commissioning_rate_per_month = I(1)]

BaseTask ==
  [id |-> 1, name |-> "task", interval_hours |-> NULL, interval_months |-> NULL, labor_hours |-> 2,
   skill_level |-> "technician", is_one_time |-> 0, is_automated |-> 0,
   enabled |-> TRUE, parts |-> <<>>]

FilterPart == [part_number |-> "FILTER", quantity |-> 2, is_optional |-> 0]

OptionalPart == [part_number |-> "GASKET", quantity |-> 1, is_optional |-> 1]

UnpricedPart == [part_number |-> "UNLISTED", quantity |-> 1, is_optional |-> 0]

OneTimeTask == [BaseTask EXCEPT !.id = 1, !.name = "commissioning", !.is_one_time = 1]

HoursTask ==
  [BaseTask EXCEPT !.id = 2, !.name = "oil service", !.interval_hours = 500, !.labor_hours = 1,
                   !.parts = <<FilterPart, OptionalPart>>]

MonthsTask ==
  [BaseTask EXCEPT !.id = 3, !.name = "inspection", !.interval_months = 6, !.skill_level = "Specialist",
                   !.parts = <<UnpricedPart>>]

AutomatedTask ==
  [BaseTask EXCEPT !.id = 4, !.name = "remote check", !.interval_hours = 500, !.is_automated = 1]

NoRuleTask == [BaseTask EXCEPT !.id = 5, !.name = "unscheduled"]

\* a task switched off in the planner
DisabledTask ==
  [BaseTask EXCEPT !.id = 6, !.name = "coolant service", !.interval_hours = 500, !.enabled = FALSE,
                   !.parts = <<FilterPart>>]

TaskKinds ==
  {OneTimeTask, HoursTask, MonthsTask, AutomatedTask, NoRuleTask, DisabledTask}

\* every sequence over S of length 0..n
RECURSIVE SeqsUpTo(_, _)
SeqsUpTo(S, n) ==
  IF n = 0 THEN {<<>>}
  ELSE LET shorter == SeqsUpTo(S, n - 1)
       IN shorter \cup {Append(q, x) : q \in shorter, x \in S}

BasePriceMap ==
  ("FILTER" :> 25) @@ ("GASKET" :> 40) @@ ("BELT" :> 300) @@ ("FREEPART" :> 0)

BeltLifecycle ==
  [equipment_model_id |-> 1, component_name |-> "BELT",
   expected_life_hours |-> 6500, replacement_labor_hours |-> 4]

\* the component of the scheduler example: life 8760 h on a unit running
\* 8760 h per year
YearlyLifecycle ==
  [equipment_model_id |-> 2, component_name |-> "PLUG",
   expected_life_hours |-> 8760, replacement_labor_hours |-> 1]

LongLifecycle ==
  [equipment_model_id |-> 1, component_name |-> "TURBO",
   expected_life_hours |-> 9750, replacement_labor_hours |-> 8]

\* task lists in sort_order (the order loadScenarioData reads them in)
TaskLists ==
  {q \in SeqsUpTo(TaskKinds, MaxTasks) :
     \A i, j \in 1..Len(q) : i < j => q[i].id < q[j].id}

\* fleets with the component lifecycles of their equipment models
FleetsWithLifecycles ==
  {[fleetUnits |-> <<BaseUnit>>, componentLifecycles |-> <<>>],
   [fleetUnits |-> <<BaseUnit>>, componentLifecycles |-> <<LongLifecycle>>],
   [fleetUnits |-> <<BaseUnit, ContinuousUnit>>,
    componentLifecycles |-> <<BeltLifecycle, YearlyLifecycle>>]}

\* overhead, inflation, discount and the downtime switch of a scenario
RateVariants ==
  {[o |-> o, i |-> i, d |-> d, dt |-> 1] : o \in {0, 15}, i \in {0, 100}, d \in {0, 100}}
  \cup {[o |-> 15, i |-> 0, d |-> 0, dt |-> 0]}

EngineScenarios ==
  {[BaseScenario EXCEPT !.analysis_period_years = p, !.overhead_markup_pct = v.o,
                        !.inflation_rate_pct = v.i, !.discount_rate_pct = v.d,
                        !.include_downtime_costs = v.dt] :
     p \in 1..MaxPeriod, v \in RateVariants}

\* the scheduler example: a 20-year period, one unit group running 8760 h
HorizonExample ==
  [scenario |-> [BaseScenario EXCEPT !.analysis_period_years = 20],
   fleetUnits |-> <<ContinuousUnit>>,
   pmTasks |-> <<HoursTask>>,
   priceMap |-> BasePriceMap,
   componentLifecycles |-> <<YearlyLifecycle>>]

\* one unit group, one hours-based task, no component: the input the
\* boundary inputs below vary
PlainInput ==
  [scenario |-> BaseScenario,
   fleetUnits |-> <<BaseUnit>>,
   pmTasks |-> <<HoursTask>>,
   priceMap |-> BasePriceMap,
   componentLifecycles |-> <<>>]

\* expected_life_hours values that are zero or negative (the column is
\* REAL NOT NULL without a CHECK constraint)
BadLives == {0, -100}

BadLifecycle(life) ==
  [equipment_model_id |-> 1, component_name |-> "SENSOR",
   expected_life_hours |-> life, replacement_labor_hours |-> 2]

\* a fleet whose equipment model has one component of unusable expected life
\* next to a usable one
BadLifeInputs ==
  {[PlainInput EXCEPT !.componentLifecycles = ls] :
     ls \in UNION {{<<BadLifecycle(life), BeltLifecycle>>,
                    <<BeltLifecycle, BadLifecycle(life)>>,
                    <<BadLifecycle(life)>>} : life \in BadLives}}

\* the seeded break-in service: one-time, with the hour mark it is due at
BreakInTask ==
  [BaseTask EXCEPT !.id = 7, !.name = "Initial 50-Hour Service", !.interval_hours = 50,
                   !.is_one_time = 1, !.parts = <<FilterPart>>]

\* the seeded 500-hour / annual service: both intervals set
AnnualTask ==
  [BaseTask EXCEPT !.id = 8, !.name = "500-Hour / Annual Service", !.interval_hours = 500,
                   !.interval_months = 12]

\* task lists with more than one recurrence rule on a task
ServiceRuleInputs ==
  {[PlainInput EXCEPT !.fleetUnits = fl, !.pmTasks = ts] :
     fl \in {<<BaseUnit>>, <<BaseUnit, ContinuousUnit>>},
     ts \in {<<BreakInTask>>, <<AnnualTask>>, <<BreakInTask, AnnualTask>>}}

\* a part the catalog lists at price 0
FreePart == [part_number |-> "FREEPART", quantity |-> 1, is_optional |-> 0]

\* a task with a part the catalog does not list and one it lists at 0
ZeroPriceTask ==
  [BaseTask EXCEPT !.id = 9, !.name = "inspection kit", !.interval_hours = 500,
                   !.parts = <<UnpricedPart, FreePart>>]

\* TURBO is a component the catalog does not list either
UnpricedInputs ==
  {[PlainInput EXCEPT !.pmTasks = <<ZeroPriceTask>>, !.componentLifecycles = ls] :
     ls \in {<<>>, <<LongLifecycle>>, <<BeltLifecycle, LongLifecycle>>}}

\* 10 units at 6500 h: 1000 services of 3 h, 3000 labor hours a year
StaffingTask ==
  [BaseTask EXCEPT !.id = 10, !.name = "walk-round", !.interval_hours = 65, !.labor_hours = 3]

\* scenarios whose technicians have 1500, 2000 or no available hours a year
StaffingInputs ==
  {[PlainInput EXCEPT !.pmTasks = ts,
                      !.scenario = [@ EXCEPT !.working_days_per_year = days,
                                             !.target_utilization_pct = util]] :
     ts \in {<<StaffingTask>>, <<>>}, days \in {0, 250}, util \in {0, 75, 100}}

\* unit groups by commissioning speed: 80 units at 2 a month take 40 months,
\* 60 units 30 months, 10 units at one every other month 20 months; a rate of
\* 0 stands for all units at once
SlowUnit == [BaseUnit EXCEPT !.quantity = 80]

MediumUnit == [BaseUnit EXCEPT !.quantity = 60]

HalfRateUnit == [BaseUnit EXCEPT !.commissioning_rate_per_month = Q(1, 2)]

AtOnceUnit == [BaseUnit EXCEPT !.commissioning_rate_per_month = Zero]

RampInputs ==
  {[PlainInput EXCEPT !.fleetUnits = fl] :
     fl \in {<<SlowUnit>>, <<MediumUnit>>, <<HalfRateUnit>>, <<AtOnceUnit>>,
             <<BaseUnit, SlowUnit>>, <<HalfRateUnit, MediumUnit>>,
             <<AtOnceUnit, ContinuousUnit>>}}

\* one unit burning 3 / 2 / 1 therms an hour at full / 75 % / 50 % load, its
\* rates given in therms per hour and in cubic feet per hour (100 cubic feet
\* to the therm), as the seeded natural-gas models give them
ThermUnit == [BaseUnit EXCEPT !.quantity = 1]

CfhUnit ==
  [ThermUnit EXCEPT !.fuel_consumption_unit = "CFH", !.fuel_consumption_rate_full = 300,
                    !.fuel_consumption_rate_75 = 200, !.fuel_consumption_rate_50 = 100]

FuelUnitInputs ==
  {[PlainInput EXCEPT !.fleetUnits = fl] :
     fl \in {<<ThermUnit>>, <<CfhUnit>>, <<CfhUnit, ThermUnit>>}}

\* scenarios with the fuel switch off (0, or never set), at two fuel prices
FuelOffInputs ==
  {[PlainInput EXCEPT !.scenario.include_fuel_costs = flag,
                      !.scenario.fuel_cost_per_unit = price,
                      !.scenario.inflation_rate_pct = infl,
                      !.scenario.include_downtime_costs = dt,
                      !.componentLifecycles = <<BeltLifecycle>>] :
     flag \in {0, NULL}, price \in {1, 5}, infl \in {0, 100}, dt \in {0, 1}}

\* unit groups of 1, 3 and 10 units whose belt is replaced every year, without
\* and with inflation
QuantityInputs ==
  {[PlainInput EXCEPT !.fleetUnits = <<[BaseUnit EXCEPT !.quantity = q]>>,
                      !.scenario.inflation_rate_pct = infl,
                      !.componentLifecycles = <<BeltLifecycle>>] :
     q \in {1, 3, 10}, infl \in {0, 10}}

\* the duty cycles a fleet unit is stored with (routes/fleet.js stores
\* duty_cycle ?? 0.75: any number given, 0 included)
DutyCycles == {Zero, Q(1, 2), Q(3, 5), Q(3, 4), Q(17, 20), Q(9, 10)}

\* one unit at every duty cycle, each load rate of its model set or NULL
TierUnits ==
  {[ThermUnit EXCEPT !.duty_cycle = dc, !.fuel_consumption_rate_full = full,
                     !.fuel_consumption_rate_75 = r75, !.fuel_consumption_rate_50 = r50] :
     dc \in DutyCycles, full \in {NULL, 3}, r75 \in {NULL, 2}, r50 \in {NULL, 1}}

TierInputs == {[PlainInput EXCEPT !.fleetUnits = <<u>>] : u \in TierUnits}

EdgeInputs ==
  {PlainInput} \cup BadLifeInputs \cup ServiceRuleInputs \cup UnpricedInputs
  \cup StaffingInputs \cup RampInputs \cup FuelUnitInputs \cup TierInputs
  \cup FuelOffInputs \cup QuantityInputs

EngineInputs ==
  {[scenario |-> sc, fleetUnits |-> fl.fleetUnits, pmTasks |-> ts,
    priceMap |-> BasePriceMap, componentLifecycles |-> fl.componentLifecycles] :
     sc \in EngineScenarios, fl \in FleetsWithLifecycles, ts \in TaskLists}
  \cup {HorizonExample} \cup EdgeInputs

\* the inputs of the repeated runs: one projection year, at most one task
RepeatInputs ==
  {d \in EngineInputs : d.scenario.analysis_period_years = 1 /\ Len(d.pmTasks) <= 1}
  \cup EdgeInputs

NoResult == [threw |-> FALSE, scenario_id |-> NULL]

NoFull == [summary |-> NULL]

NoRequest == [op |-> "idle"]

NoResponse == [status |-> 0]

NoDb == [scenarios |-> <<>>]

NoPending == [op |-> "none"]

NoServer == [pc |-> "off"]

\* ------------------------------------------------------------------------
\* The database the routes read (routes/maintenance.js never writes these
\* tables during an analysis request)
\* ------------------------------------------------------------------------
\* a task whose skill_level is stored as a BLOB: getLaborRate throws on it
BlobSkillTask ==
  [BaseTask EXCEPT !.id = 7, !.name = "imported", !.interval_hours = 500,
                   !.skill_level = NonString]

StoredScenario == [BaseScenario EXCEPT !.analysis_period_years = 2]

\* the scenarios table, by id: two complete scenarios, one row per way of
\* being incomplete, one whose calculation throws, and rows whose values
\* break the invariants of a scenario
ScenarioTable ==
  <<[StoredScenario EXCEPT !.id = 1],
    [StoredScenario EXCEPT !.id = 2, !.labor_rate = 50],
    [StoredScenario EXCEPT !.id = 3, !.fleet_id = NULL],
    [StoredScenario EXCEPT !.id = 4, !.pm_schedule_id = NULL],
    [StoredScenario EXCEPT !.id = 5, !.fleet_id = 2],
    [StoredScenario EXCEPT !.id = 6, !.pm_schedule_id = 2],
    [StoredScenario EXCEPT !.id = 7, !.price_list_id = NULL],
    [StoredScenario EXCEPT !.id = 8, !.analysis_period_years = 0],
    [StoredScenario EXCEPT !.id = 9, !.labor_rate = -100, !.parts_discount_pct = 150,
                           !.target_utilization_pct = 0]>>

\* an id no scenario row has
UnknownId == Len(ScenarioTable) + 1

\* fleet_units JOIN equipment_models WHERE fleet_id = ?  (fleet 2 has no units)
FleetUnitRows(fleet_id) == IF fleet_id = 1 THEN <<BaseUnit>> ELSE <<>>

\* pm_tasks (with their pm_task_parts) WHERE pm_schedule_id = ? ORDER BY sort_order
PmTaskRows(pm_schedule_id) ==
  IF pm_schedule_id = 1 THEN <<OneTimeTask, HoursTask>>
  ELSE IF pm_schedule_id = 2 THEN <<BlobSkillTask>>
  ELSE <<>>

\* a price map without items
EmptyPriceMap == [part_number \in {} |-> 0]

\* price_list_items WHERE price_list_id = ?, indexed by part_number
PriceListItems(price_list_id) ==
  IF price_list_id = 1 THEN BasePriceMap ELSE EmptyPriceMap

\* the component_lifecycles table
ComponentLifecycleRows == <<BeltLifecycle, YearlyLifecycle, LongLifecycle>>

\* component_lifecycles WHERE equipment_model_id IN (the models of the fleet)
LifecyclesOfFleet(fleetUnits) ==
  SelectSeq(ComponentLifecycleRows,
            LAMBDA l : \E i \in 1..Len(fleetUnits) :
                         fleetUnits[i].equipment_model_id = l.equipment_model_id)

\* what loadScenarioData returns for an id without a row
NoData == [scenario |-> NULL]

\* loadScenarioData(scenarioId)
loadScenarioData(scenarioId) ==
  IF scenarioId \notin 1..Len(ScenarioTable) THEN NoData
  ELSE LET scenario == ScenarioTable[scenarioId]
           fleetUnits == IF Truthy(scenario.fleet_id)
                           THEN FleetUnitRows(scenario.fleet_id) ELSE <<>>
           pmTasks == IF Truthy(scenario.pm_schedule_id)
                        THEN PmTaskRows(scenario.pm_schedule_id) ELSE <<>>
           priceMap == IF Truthy(scenario.price_list_id)
                         THEN PriceListItems(scenario.price_list_id) ELSE EmptyPriceMap
       IN [scenario |-> scenario, fleetUnits |-> fleetUnits, pmTasks |-> pmTasks,
           priceMap |-> priceMap, componentLifecycles |-> LifecyclesOfFleet(fleetUnits)]

\* runAnalysis(loadScenarioData(id)) of every scenario row; the tables do not
\* change, so a route's call of runAnalysis on a loaded row is read off here
AnalysisRuns ==
  Tuple([id \in 1..Len(ScenarioTable) |-> runAnalysis(loadScenarioData(id))])

\* ------------------------------------------------------------------------
\* POST /calculate
\* ------------------------------------------------------------------------
\* the checks of POST /calculate between loading the scenario and running the
\* analysis that deviate from the code: the empty-fleet check is missing
CalculateChecksWithoutUnits(data) ==
  IF data = NoData THEN [status |-> 404, error |-> "Scenario not found"]
  ELSE IF ~Truthy(data.scenario.fleet_id)
    THEN [status |-> 400, error |-> "Scenario has no fleet assigned"]
  ELSE IF ~Truthy(data.scenario.pm_schedule_id)
    THEN [status |-> 400, error |-> "Scenario has no PM schedule assigned"]
  ELSE NoResponse

\* the checks of POST /calculate between loading the scenario and running the
\* analysis: the error response, or NoResponse when the analysis is to run
CalculateChecks(data) ==
  IF data = NoData THEN [status |-> 404, error |-> "Scenario not found"]
  ELSE IF ~Truthy(data.scenario.fleet_id)
    THEN [status |-> 400, error |-> "Scenario has no fleet assigned"]
  ELSE IF ~Truthy(data.scenario.pm_schedule_id)
    THEN [status |-> 400, error |-> "Scenario has no PM schedule assigned"]
  ELSE IF Len(data.fleetUnits) = 0
    THEN [status |-> 400, error |-> "Fleet has no units"]
  ELSE NoResponse

\* the handler of POST /calculate: the response and the runAnalysis calls made
Calculate(body) ==
  IF ~Truthy(body.scenario_id)
    THEN [response |-> [status |-> 400, error |-> "Missing required field: scenario_id"],
          calls |-> <<>>]
  ELSE LET rejected == CalculateChecks(loadScenarioData(body.scenario_id))
       IN IF rejected # NoResponse THEN [response |-> rejected, calls |-> <<>>]
          ELSE LET results == AnalysisRuns[body.scenario_id]
               IN [response |-> IF results.threw
                                  THEN [status |-> 500, error |-> "Failed to run analysis", details |-> ThrownMessage]
                                  ELSE [status |-> 200, body |-> results],
                   calls |-> <<body.scenario_id>>]

\* ------------------------------------------------------------------------
\* POST /compare
\* ------------------------------------------------------------------------
IncompleteMessage ==
  "Scenario is incomplete (missing fleet, PM schedule, or fleet has no units)"

\* the loop of POST /compare over rest, started with what the earlier ids
\* left in acc = [results, errors, calls], but giving up at the first id that
\* fails: it deviates from the code, which goes on with the next id
RECURSIVE CompareLoopUntilError(_, _)
CompareLoopUntilError(rest, acc) ==
  IF rest = <<>> THEN acc
  ELSE LET scenarioId == Head(rest)
           data == loadScenarioData(scenarioId)
       IN IF data = NoData
            THEN [acc EXCEPT !.errors =
                    Append(@, [scenario_id |-> scenarioId, error |-> "Scenario not found"])]
          ELSE IF \/ ~Truthy(data.scenario.fleet_id)
                  \/ ~Truthy(data.scenario.pm_schedule_id)
                  \/ Len(data.fleetUnits) = 0
            THEN [acc EXCEPT !.errors =
                    Append(@, [scenario_id |-> scenarioId, error |-> IncompleteMessage])]
          ELSE IF AnalysisRuns[scenarioId].threw
            THEN [acc EXCEPT !.errors =
                    Append(@, [scenario_id |-> scenarioId, error |-> ThrownMessage]),
                             !.calls = Append(@, scenarioId)]
          ELSE CompareLoopUntilError(Tail(rest),
                 [acc EXCEPT !.results = Append(@, AnalysisRuns[scenarioId]),
                             !.calls = Append(@, scenarioId)])

\* the loop of POST /compare over rest, started with what the earlier ids
\* left in acc = [results, errors, calls]
RECURSIVE CompareLoop(_, _)
CompareLoop(rest, acc) ==
  IF rest = <<>> THEN acc
  ELSE LET scenarioId == Head(rest)
           data == loadScenarioData(scenarioId)
       IN IF data = NoData
            THEN CompareLoop(Tail(rest),
                   [acc EXCEPT !.errors =
                      Append(@, [scenario_id |-> scenarioId, error |-> "Scenario not found"])])
          ELSE IF \/ ~Truthy(data.scenario.fleet_id)
                  \/ ~Truthy(data.scenario.pm_schedule_id)
                  \/ Len(data.fleetUnits) = 0
            THEN CompareLoop(Tail(rest),
                   [acc EXCEPT !.errors =
                      Append(@, [scenario_id |-> scenarioId, error |-> IncompleteMessage])])
          ELSE IF AnalysisRuns[scenarioId].threw
            THEN CompareLoop(Tail(rest),
                   [acc EXCEPT !.errors =
                      Append(@, [scenario_id |-> scenarioId, error |-> ThrownMessage]),
                               !.calls = Append(@, scenarioId)])
          ELSE CompareLoop(Tail(rest),
                 [acc EXCEPT !.results = Append(@, AnalysisRuns[scenarioId]),
                             !.calls = Append(@, scenarioId)])

\* the row of comparison.scenarios of one result
ComparisonRow(r) ==
  [scenario_id |-> r.scenario_id,
   total_units |-> r.fleet_summary.total_units,
   total_kw |-> r.fleet_summary.total_kw,
   annual_maintenance_cost |-> r.maintenance_cost_summary.total_annual_maintenance_cost,
   annual_fuel_cost |-> r.fuel_summary.annual_fuel_cost,
   annual_downtime_cost |-> r.downtime_summary.annual_downtime_cost,
   cost_per_kwh |-> r.cost_per_kwh,
   technicians_needed |-> r.staffing.technicians_needed,
   tco_npv |-> r.tco.total_npv,
   tco_nominal |-> r.tco.total_nominal,
   average_annual_cost |-> r.tco.average_annual_cost]

\* an order of the rows that deviates from the code: the highest NPV first
RECURSIVE SortedByNpvDescending(_)
SortedByNpvDescending(rows) ==
  IF rows = <<>> THEN <<>>
  ELSE LET sortedFront == SortedByNpvDescending(SubSeq(rows, 1, Len(rows) - 1))
           x == rows[Len(rows)]
           before == SelectSeq(sortedFront, LAMBDA a : ~Gt(x.tco_npv, a.tco_npv))
           after == SelectSeq(sortedFront, LAMBDA a : Gt(x.tco_npv, a.tco_npv))
       IN before \o <<x>> \o after

\* [...rows].sort((a, b) => a.tco_npv - b.tco_npv): a stable ascending sort
RECURSIVE SortedByNpv(_)
SortedByNpv(rows) ==
  IF rows = <<>> THEN <<>>
  ELSE LET sortedFront == SortedByNpv(SubSeq(rows, 1, Len(rows) - 1))
           x == rows[Len(rows)]
           before == SelectSeq(sortedFront, LAMBDA a : ~Gt(a.tco_npv, x.tco_npv))
           after == SelectSeq(sortedFront, LAMBDA a : Gt(a.tco_npv, x.tco_npv))
       IN before \o <<x>> \o after

\* a record without fields: what an undefined property adds to a JSON object
NoFields == [f \in {} |-> NULL]

\* the end of POST /compare: the response and the runAnalysis calls made,
\* given what the loop left in done = [results, errors, calls]
CompareResponse(done) ==
  LET scenarios == Tuple([i \in 1..Len(done.results) |-> ComparisonRow(done.results[i])])
      sorted == SortedByNpv(scenarios)
  IN IF Len(done.results) = 0
       THEN [response |-> [status |-> 400, error |-> "No valid scenarios to compare",
                           details |-> done.errors],
             calls |-> done.calls]
     ELSE [response |->
             [status |-> 200,
              body |->
                [scenarios |-> scenarios, full_results |-> done.results]
                @@ (IF Len(done.errors) > 0 THEN [errors |-> done.errors]
                    ELSE NoFields)
                @@ (IF Len(scenarios) >= 2
                      THEN [lowest_tco |->
                              [scenario_id |-> sorted[1].scenario_id,
                               tco_npv |-> sorted[1].tco_npv,
                               savings_vs_highest |->
                                 round2(Sub(sorted[Len(sorted)].tco_npv,
                                            sorted[1].tco_npv))]]
                      ELSE NoFields)],
           calls |-> done.calls]

\* the handler of POST /compare: the response and the runAnalysis calls made
\* (a body without scenario_ids is rejected like one with an empty array)
Compare(body) ==
  IF Len(body.scenario_ids) < 2
    THEN [response |-> [status |-> 400,
                        error |-> "Provide at least 2 scenario_ids as an array"],
          calls |-> <<>>]
    ELSE CompareResponse(CompareLoop(body.scenario_ids,
                           [results |-> <<>>, errors |-> <<>>, calls |-> <<>>]))

\* ------------------------------------------------------------------------
\* POST /quick-calculate
\* ------------------------------------------------------------------------
\* SELECT * FROM equipment_models WHERE id = ?: the rows found (at most one)
EquipmentModelRows(id) ==
  IF id = 1 THEN <<BaseUnit>> ELSE IF id = 2 THEN <<ContinuousUnit>> ELSE <<>>

\* a number field of a request body that is left out (a JSON body holds no
\* NaN, so the pair is free to stand for the missing field)
Absent == NaN

\* the fleet unit built from one inline unit and its equipment model
InlineFleetUnit(iu) ==
  LET model == EquipmentModelRows(iu.equipment_model_id)[1]
  IN [equipment_model_id |-> iu.equipment_model_id,
      model_number |-> model.model_number,
      quantity |-> OrElse(iu.quantity, 1),
      application_type |-> IF iu.application_type = "" THEN "prime"
                           ELSE iu.application_type,
      annual_hours |-> OrElse(iu.annual_hours, NULL),
      duty_cycle |-> IF iu.duty_cycle = Absent THEN Q(3, 4) ELSE iu.duty_cycle,
      commissioning_rate_per_month |->
        IF iu.commissioning_rate_per_month = Absent THEN One
        ELSE iu.commissioning_rate_per_month,
      power_rating_kw |-> model.power_rating_kw,
      fuel_consumption_rate_full |-> model.fuel_consumption_rate_full,
      fuel_consumption_rate_75 |-> model.fuel_consumption_rate_75,
      fuel_consumption_rate_50 |-> model.fuel_consumption_rate_50,
      fuel_consumption_unit |-> model.fuel_consumption_unit,
      default_annual_hours_standby |-> model.default_annual_hours_standby,
      default_annual_hours_prime |-> model.default_annual_hours_prime,
      default_annual_hours_ltp |-> model.default_annual_hours_ltp,
      default_annual_hours_continuous |-> model.default_annual_hours_continuous]

\* the inline units that name a known equipment model
UsableInlineUnits(inlineUnits) ==
  SelectSeq(inlineUnits,
            LAMBDA iu : Truthy(iu.equipment_model_id)
                        /\ EquipmentModelRows(iu.equipment_model_id) # <<>>)

\* fleetUnits of a quick calculation: the referenced fleet, else the inline
\* units (a body without fleet_units is a body with none: fleetUnits stays [])
QuickFleetUnits(body) ==
  IF Truthy(body.fleet_id) THEN FleetUnitRows(body.fleet_id)
  ELSE LET usable == UsableInlineUnits(body.fleet_units)
       IN Tuple([i \in 1..Len(usable) |-> InlineFleetUnit(usable[i])])

\* the PM task built from one inline task
InlineTask(t) ==
  [id |-> NULL,
   name |-> t.name,
   interval_hours |-> OrElse(t.interval_hours, NULL),
   interval_months |-> OrElse(t.interval_months, NULL),
   labor_hours |-> Coalesce(t.labor_hours, 1),
   skill_level |-> IF t.skill_level = "" THEN "technician" ELSE t.skill_level,
   is_one_time |-> IF Truthy(t.is_one_time) THEN 1 ELSE 0,
   is_automated |-> IF Truthy(t.is_automated) THEN 1 ELSE 0,
   enabled |-> TRUE,
   parts |-> Tuple([k \in 1..Len(t.parts) |->
               [part_number |-> t.parts[k].part_number,
                quantity |-> Coalesce(t.parts[k].quantity, 1),
                is_optional |-> IF Truthy(t.parts[k].is_optional) THEN 1 ELSE 0]])]

\* pmTasks of a quick calculation: the referenced schedule, else the inline
\* tasks (a body without pm_tasks is a body with none: pmTasks stays [])
QuickPmTasks(body) ==
  IF Truthy(body.pm_schedule_id) THEN PmTaskRows(body.pm_schedule_id)
  ELSE Tuple([i \in 1..Len(body.pm_tasks) |-> InlineTask(body.pm_tasks[i])])

\* the synthetic scenario object: a parameter the body leaves out (NULL here)
\* takes its default
QuickScenario(body) ==
  [id |-> NULL,
   fleet_id |-> body.fleet_id,
   pm_schedule_id |-> body.pm_schedule_id,
   price_list_id |-> body.price_list_id,
   analysis_period_years |-> Coalesce(body.analysis_period_years, 20),
   labor_rate |-> Coalesce(body.labor_rate, 120),
   labor_rate_specialist |-> Coalesce(body.labor_rate_specialist, 180),
   labor_rate_engineer |-> Coalesce(body.labor_rate_engineer, 250),
   parts_discount_pct |-> Coalesce(body.parts_discount_pct, 20),
   overhead_markup_pct |-> Coalesce(body.overhead_markup_pct, 15),
   working_days_per_year |-> Coalesce(body.working_days_per_year, 250),
   hours_per_day |-> Coalesce(body.hours_per_day, 8),
   target_utilization_pct |-> Coalesce(body.target_utilization_pct, 75),
   discount_rate_pct |-> Coalesce(body.discount_rate_pct, 5),
   inflation_rate_pct |-> Coalesce(body.inflation_rate_pct, 3),
   fuel_cost_per_unit |-> Coalesce(body.fuel_cost_per_unit, 1),
   downtime_cost_per_hour |-> Coalesce(body.downtime_cost_per_hour, 500),
   include_fuel_costs |-> IF Truthy(Coalesce(body.include_fuel_costs, 1)) THEN 1 ELSE 0,
   include_downtime_costs |->
     IF Truthy(Coalesce(body.include_downtime_costs, 1)) THEN 1 ELSE 0]

NoFleetUnitsMessage ==
  "No fleet units provided. Supply fleet_id or fleet_units array with equipment_model_id."

NoPmTasksMessage == "No PM tasks provided. Supply pm_schedule_id or pm_tasks array."

\* the handler of POST /quick-calculate: the response and the runAnalysis
\* calls made (the synthetic scenario has id null)
QuickCalculate(body) ==
  LET fleetUnits == QuickFleetUnits(body)
      pmTasks == QuickPmTasks(body)
  IN IF Len(fleetUnits) = 0
       THEN [response |-> [status |-> 400, error |-> NoFleetUnitsMessage],
             calls |-> <<>>]
     ELSE IF Len(pmTasks) = 0
       THEN [response |-> [status |-> 400, error |-> NoPmTasksMessage],
             calls |-> <<>>]
     ELSE LET results ==
                runAnalysis([scenario |-> QuickScenario(body),
                             fleetUnits |-> fleetUnits,
                             pmTasks |-> pmTasks,
                             priceMap |-> IF Truthy(body.price_list_id)
                                            THEN PriceListItems(body.price_list_id)
                                            ELSE EmptyPriceMap,
                             componentLifecycles |-> LifecyclesOfFleet(fleetUnits)])
          IN [response |-> IF results.threw
                             THEN [status |-> 500, error |-> "Failed to run quick calculation",
                                   details |-> ThrownMessage]
                             ELSE [status |-> 200, body |-> results],
              calls |-> <<NULL>>]

\* ------------------------------------------------------------------------
\* The Weibull lifecycle helpers (src/unnamed/part_009)
\* ------------------------------------------------------------------------
\* |a|
AbsNum(a) == IF a[1] < 0 THEN Neg(a) ELSE a

\* Math.pow(b, e) for an exponent that is NaN, infinite or an integer
MathPow(b, e) ==
  CASE IsNaN(e) -> NaN
    [] e = Zero -> One
    [] ~IsNaN(e) /\ e # Zero /\ IsNaN(b) -> NaN
    [] IsInf(e) /\ ~IsNaN(b) ->
         IF AbsNum(b) = One THEN NaN
         ELSE IF Gt(AbsNum(b), One) = (e = PosInf) THEN PosInf ELSE Zero
    [] e[2] = 1 /\ e[1] > 0 /\ ~IsNaN(b) -> Pow(b, e[1])
    [] e[2] = 1 /\ e[1] < 0 /\ ~IsNaN(b) -> Inv(Pow(b, -e[1]))

\* Math.exp(x): exact at NaN, at the infinities and at 0; elsewhere the Pade
\* approximant (12 + 6x + x^2) / (12 - 6x + x^2), which is positive and
\* increasing for |x| < 3, rounded to two decimals
MathExp(x) ==
  IF IsNaN(x) THEN NaN
  ELSE IF x = PosInf THEN PosInf
  ELSE IF x = NegInf THEN Zero
  ELSE LET n == x[1]
           d == x[2]
           pade == Norm(12 * d * d + 6 * n * d + n * n, 12 * d * d - 6 * n * d + n * n)
       IN Div(Round(Mul(pade, I(100))), I(100))

\* Math.PI, to six decimals
MathPi == Q(355, 113)

\* Math.sin(x) where it is exact
MathSin(x) ==
  CASE x = Zero -> Zero
    [] ~IsFinite(x) -> NaN

\* the Lanczos branch of gammaFunction (z >= 0.5, or NaN): the series agrees
\* with the Gamma function to 15 digits, so it is 1 at z = 1 and z = 2; at
\* z = Infinity it multiplies Math.pow(Infinity, Infinity) by
\* Math.exp(-Infinity) = 0, which is NaN
LanczosGamma(z) ==
  CASE IsNaN(z) -> NaN
    [] z = PosInf -> Mul(MathPow(PosInf, PosInf), MathExp(NegInf))
    [] z = One \/ z = I(2) -> One

\* gammaFunction(z)
RECURSIVE gammaFunction(_)
gammaFunction(z) ==
  IF Lt(z, Q(1, 2))
    THEN Div(MathPi, Mul(MathSin(Mul(MathPi, z)), gammaFunction(Sub(One, z))))
    ELSE LanczosGamma(z)

\* weibullPDF(t, beta, eta)
weibullPDF(t, beta, eta) ==
  IF Le(t, Zero) THEN Zero
  ELSE Mul(Mul(Div(beta, eta), MathPow(Div(t, eta), Sub(beta, One))),
           MathExp(Neg(MathPow(Div(t, eta), beta))))

\* weibullCDF(t, beta, eta)
weibullCDF(t, beta, eta) ==
  IF Le(t, Zero) THEN Zero
  ELSE Sub(One, MathExp(Neg(MathPow(Div(t, eta), beta))))

\* a reliability that deviates from the code: one minus the density
weibullReliabilityOfDensity(t, beta, eta) == Sub(One, weibullPDF(t, beta, eta))

\* weibullReliability(t, beta, eta)
weibullReliability(t, beta, eta) == Sub(One, weibullCDF(t, beta, eta))

\* Math.round(x * scale) / scale
RoundTo(x, scale) == Div(Round(Mul(x, I(scale))), I(scale))

\* generateFailureCurve(expectedLifeHours, weibullShape, points), points >= 0
generateFailureCurve(expectedLifeHours, weibullShape, points) ==
  LET beta == weibullShape
      gammaApprox == gammaFunction(Add(One, Div(One, beta)))
      eta == Div(expectedLifeHours, gammaApprox)
      maxTime == Mul(expectedLifeHours, I(2))
      step == Div(maxTime, I(points))
      curve ==
        Tuple([n \in 1..(points + 1) |->
          LET t == Mul(I(n - 1), step)
          IN [hours |-> Round(t),
              failure_probability |-> RoundTo(weibullCDF(t, beta, eta), 10000),
              reliability |-> RoundTo(weibullReliability(t, beta, eta), 10000),
              failure_rate |-> RoundTo(weibullPDF(t, beta, eta), 1000000)]])
  IN [curve |-> curve,
      parameters |->
        [beta |-> beta,
         eta |-> Round(eta),
         mean_life |-> expectedLifeHours,
         b10_life |-> Round(Mul(eta, MathPow(Q(1054, 10000), Div(One, beta)))),
         b50_life |-> Round(Mul(eta, MathPow(Q(6931, 10000), Div(One, beta))))]]

\* costRate of one candidate interval t of the search loop
CostRate(t, beta, eta, plannedCost, unplannedCost) ==
  LET pf == weibullCDF(t, beta, eta)
      ps == Sub(One, pf)
      expectedCost == Add(Mul(plannedCost, ps), Mul(unplannedCost, pf))
      expectedLength == Add(Mul(t, ps), Mul(Div(t, I(2)), pf))
  IN Div(expectedCost, expectedLength)

\* a search limit that deviates from the loop test: the mean life itself
SearchLimitAtMeanLife(expectedLifeHours) == expectedLifeHours

\* the limit of the search loop: expectedLifeHours * 1.5
SearchLimit(expectedLifeHours) == Mul(expectedLifeHours, Q(3, 2))

\* optimalReplacementInterval(expectedLifeHours, weibullShape, plannedCost,
\* unplannedCostMultiplier).  The search loop
\*   for (let t = step; t <= expectedLifeHours * 1.5; t += step)
\* visits t = k * step for k = 1 .. floor(limit / step) when step > 0, visits
\* nothing when the test fails at once, and never ends when t += step leaves a
\* t within the limit unchanged (step = 0): [hangs |-> TRUE].  It keeps the
\* first candidate of the least cost rate below Infinity.
optimalReplacementInterval(expectedLifeHours, weibullShape, plannedCost, unplannedCostMultiplier) ==
  LET beta == weibullShape
      gammaApprox == gammaFunction(Add(One, Div(One, beta)))
      eta == Div(expectedLifeHours, gammaApprox)
      unplannedCost == Mul(plannedCost, unplannedCostMultiplier)
      step == Div(expectedLifeHours, I(100))
      limit == SearchLimit(expectedLifeHours)
      visited == IF Le(step, limit) THEN Floor(Div(limit, step))[1] ELSE 0
      times == Tuple([k \in 1..visited |-> Mul(I(k), step)])
      rates == Tuple([k \in 1..visited |->
                 CostRate(times[k], beta, eta, plannedCost, unplannedCost)])
      improving == {k \in 1..visited : Lt(rates[k], PosInf)}
      best == CHOOSE k \in improving :
                \A j \in improving :
                  Lt(rates[k], rates[j]) \/ (rates[k] = rates[j] /\ k <= j)
      bestInterval == IF improving = {} THEN expectedLifeHours ELSE times[best]
      bestCostRate == IF improving = {} THEN PosInf ELSE rates[best]
  IN IF Le(step, limit) /\ Add(step, step) = step
       THEN [hangs |-> TRUE]
       ELSE [hangs |-> FALSE,
             optimal_interval_hours |-> Round(bestInterval),
             cost_per_hour |-> RoundTo(bestCostRate, 10000),
             vs_oem_interval |-> Round(Mul(Div(bestInterval, expectedLifeHours), I(100)))]

\* cost_per_unit of a replacement row:
\* (comp.replacement_cost || 0) + (comp.replacement_labor_hours || 8) * 120
CostPerUnit(comp) ==
  Add(I(OrElse(comp.replacement_cost, 0)),
      Mul(I(OrElse(comp.replacement_labor_hours, 8)), I(120)))

\* replacementNumber > previousReplacements of a component in a year
ReplacementDue(comp, year, avgAnnualHours) ==
  LET hoursAtYear == Mul(I(year), I(avgAnnualHours))
      replacementNumber == Floor(Div(hoursAtYear, I(comp.expected_life_hours)))
      previousReplacements ==
        Floor(Div(Sub(hoursAtYear, I(avgAnnualHours)), I(comp.expected_life_hours)))
  IN Gt(replacementNumber, previousReplacements)

\* generateReplacementSchedule(components, totalUnits, avgAnnualHours, periodYears)
generateReplacementSchedule(components, totalUnits, avgAnnualHours, periodYears) ==
  Tuple([year \in YearLoop(periodYears) |->
    LET hoursAtYear == Mul(I(year), I(avgAnnualHours))
        due == SelectSeq(components, LAMBDA comp : ReplacementDue(comp, year, avgAnnualHours))
        yearReplacements ==
          Tuple([k \in 1..Len(due) |->
            [component |-> due[k].component_name,
             category |-> due[k].category,
             replacement_number |->
               Floor(Div(hoursAtYear, I(due[k].expected_life_hours))),
             units_affected |-> totalUnits,
             cost_per_unit |-> CostPerUnit(due[k]),
             total_cost |-> Mul(CostPerUnit(due[k]), I(totalUnits))]])
    IN [year |-> year,
        hours |-> Round(hoursAtYear),
        replacements |-> yearReplacements,
        total_cost |-> SumSeq([k \in 1..Len(yearReplacements) |->
                                 yearReplacements[k].total_cost])]])

\* ------------------------------------------------------------------------
\* Requests
\* ------------------------------------------------------------------------
\* the ids a request can name: every scenario row and one unknown id
RequestIds == 1..UnknownId

\* bodies of POST /calculate: no scenario_id, a falsy one, or an id
CalculateBodies == {[scenario_id |-> id] : id \in {NULL, 0} \cup RequestIds}

\* bodies of POST /compare: id lists of up to MaxIds entries
CompareBodies == {[scenario_ids |-> ids] : ids \in SeqsUpTo(RequestIds, MaxIds)}

InlineUnit ==
  [equipment_model_id |-> 1, quantity |-> 10, application_type |-> "",
   annual_hours |-> NULL, duty_cycle |-> Absent, commissioning_rate_per_month |-> Absent]

InlineRecurringTask ==
  [name |-> "oil service", interval_hours |-> 500, interval_months |-> NULL,
   labor_hours |-> NULL, skill_level |-> "", is_one_time |-> NULL, is_automated |-> NULL,
   parts |-> <<[part_number |-> "FILTER", quantity |-> NULL, is_optional |-> NULL]>>]

\* a body that leaves every parameter to its default, except the two rates
QuickDefaults ==
  [fleet_id |-> NULL, fleet_units |-> <<>>, pm_schedule_id |-> NULL, pm_tasks |-> <<>>,
   price_list_id |-> NULL, analysis_period_years |-> NULL, labor_rate |-> NULL,
   labor_rate_specialist |-> NULL, labor_rate_engineer |-> NULL,
   parts_discount_pct |-> NULL, overhead_markup_pct |-> NULL,
   working_days_per_year |-> NULL, hours_per_day |-> NULL,
   target_utilization_pct |-> NULL, discount_rate_pct |-> 0, inflation_rate_pct |-> 0,
   fuel_cost_per_unit |-> NULL, downtime_cost_per_hour |-> NULL,
   include_fuel_costs |-> NULL, include_downtime_costs |-> NULL]

\* bodies of POST /quick-calculate
QuickBodies ==
  {[QuickDefaults EXCEPT !.fleet_id = fl.id, !.fleet_units = fl.units,
                         !.pm_schedule_id = ts.id, !.pm_tasks = ts.tasks,
                         !.price_list_id = pl, !.analysis_period_years = p,
                         !.labor_rate = lr, !.include_fuel_costs = fuel] :
     fl \in {[id |-> 1, units |-> <<>>], [id |-> 2, units |-> <<>>],
             [id |-> NULL, units |-> <<>>], [id |-> NULL, units |-> <<InlineUnit>>],
             [id |-> NULL,
              units |-> <<[InlineUnit EXCEPT !.equipment_model_id = 9], InlineUnit>>]},
     ts \in {[id |-> 1, tasks |-> <<>>], [id |-> 2, tasks |-> <<>>],
             [id |-> NULL, tasks |-> <<>>], [id |-> NULL, tasks |-> <<InlineRecurringTask>>]},
     pl \in {NULL, 1}, p \in {NULL, 2, 0, -1}, lr \in {NULL, -100}, fuel \in {NULL, 0}}

\* arguments of the lifecycle helpers: mean lives (hours), Weibull shapes,
\* curve resolutions, planned costs and unplanned-cost multipliers
MeanLives == {-200, -100, 0, 25, 100, 200, 300}

WeibullShapes == {-1, 0, 1}

CurvePoints == {0, 2, 3, 4, 5}

PlannedCosts == {0, 1, 2}

CostMultipliers == {1, 3}

\* component lifecycle rows handed to generateReplacementSchedule: a priced
\* plug, a belt with neither price nor labor hours, and a seal that takes
\* no labor to replace
ScheduleComponents ==
  {[component_name |-> "PLUG", category |-> "ignition", expected_life_hours |-> 8760,
    replacement_cost |-> 50, replacement_labor_hours |-> 1],
   [component_name |-> "BELT", category |-> "drive", expected_life_hours |-> 6500,
    replacement_cost |-> NULL, replacement_labor_hours |-> NULL],
   [component_name |-> "SEAL", category |-> "engine", expected_life_hours |-> 20000,
    replacement_cost |-> 300, replacement_labor_hours |-> 0]}

\* lists of up to two different components
ComponentLists ==
  {q \in SeqsUpTo(ScheduleComponents, 2) : \A i, j \in 1..Len(q) : i # j => q[i] # q[j]}

FleetSizes == {1, 10}

AnnualHours == {4000, 6500, 8760}

\* ------------------------------------------------------------------------
\* The scenario routes (routes/scenarios.js) on the tables of the database
\* ------------------------------------------------------------------------
\* the ids of the rows of fleets, pm_schedules and price_lists
FleetIds == {1, 2}

PmScheduleIds == {1, 2}

PriceListIds == {1}

\* fields of PUT /:id
ScenarioFields ==
  {"name", "description", "fleet_id", "pm_schedule_id", "price_list_id",
   "analysis_period_years", "labor_rate", "labor_rate_specialist", "labor_rate_engineer",
   "parts_discount_pct", "overhead_markup_pct",
   "working_days_per_year", "hours_per_day", "target_utilization_pct",
   "discount_rate_pct", "inflation_rate_pct",
   "fuel_cost_per_unit", "downtime_cost_per_hour",
   "include_fuel_costs", "include_downtime_costs"}

ScenarioBooleanFields == {"include_fuel_costs", "include_downtime_costs"}

\* req.body[field], null when the body does not have the field (a JSON
\* boolean is 1 or 0)
Given(body, field) == IF field \in DOMAIN body THEN body[field] ELSE NULL

\* req.body.name, the empty string when the body has none
NameOf(body) == IF "name" \in DOMAIN body THEN body.name ELSE ""

\* the foreign keys of a scenarios row hold
ScenarioReferencesHold(row) ==
  /\ row.fleet_id = NULL \/ row.fleet_id \in FleetIds
  /\ row.pm_schedule_id = NULL \/ row.pm_schedule_id \in PmScheduleIds
  /\ row.price_list_id = NULL \/ row.price_list_id \in PriceListIds

\* the reference a body names does not exist: the 400 of the three lookups
MissingReference(body) ==
  IF Truthy(Given(body, "fleet_id")) /\ body.fleet_id \notin FleetIds
    THEN "Fleet not found"
  ELSE IF Truthy(Given(body, "pm_schedule_id")) /\ body.pm_schedule_id \notin PmScheduleIds
    THEN "PM schedule not found"
  ELSE IF Truthy(Given(body, "price_list_id")) /\ body.price_list_id \notin PriceListIds
    THEN "Price list not found"
  ELSE ""

\* the table without the row of the id
WithoutRow(table, id) == [k \in DOMAIN table \ {id} |-> table[k]]

\* the table with the row stored under its id
WithRow(table, row) == [k \in DOMAIN table \cup {row.id} |-> IF k = row.id THEN row ELSE table[k]]

\* the row INSERT INTO scenarios stores for a body: POST /
InsertedScenario(body, id, now) ==
  [id |-> id,
   name |-> body.name,
   description |-> NULL,
   fleet_id |-> OrElse(Given(body, "fleet_id"), NULL),
   pm_schedule_id |-> OrElse(Given(body, "pm_schedule_id"), NULL),
   price_list_id |-> OrElse(Given(body, "price_list_id"), NULL),
   analysis_period_years |-> Coalesce(Given(body, "analysis_period_years"), 20),
   labor_rate |-> Coalesce(Given(body, "labor_rate"), 120),
   labor_rate_specialist |-> Coalesce(Given(body, "labor_rate_specialist"), 180),
   labor_rate_engineer |-> Coalesce(Given(body, "labor_rate_engineer"), 250),
   parts_discount_pct |-> Coalesce(Given(body, "parts_discount_pct"), 20),
   overhead_markup_pct |-> Coalesce(Given(body, "overhead_markup_pct"), 15),
   working_days_per_year |-> Coalesce(Given(body, "working_days_per_year"), 250),
   hours_per_day |-> Coalesce(Given(body, "hours_per_day"), 8),
   target_utilization_pct |-> Coalesce(Given(body, "target_utilization_pct"), 75),
   discount_rate_pct |-> Coalesce(Given(body, "discount_rate_pct"), 5),
   inflation_rate_pct |-> Coalesce(Given(body, "inflation_rate_pct"), 3),
   fuel_cost_per_unit |-> Coalesce(Given(body, "fuel_cost_per_unit"), 1),
   downtime_cost_per_hour |-> Coalesce(Given(body, "downtime_cost_per_hour"), 500),
   include_fuel_costs |-> IF Given(body, "include_fuel_costs") # 0 THEN 1 ELSE 0,
   include_downtime_costs |-> IF Given(body, "include_downtime_costs") # 0 THEN 1 ELSE 0,
   created_at |-> now,
   updated_at |-> now]

\* POST / : create a scenario
CreateScenario(store, body) ==
  IF NameOf(body) = ""
    THEN [db |-> store, response |-> [status |-> 400, error |-> "Missing required field: name"]]
  ELSE IF MissingReference(body) # ""
    THEN [db |-> store, response |-> [status |-> 400, error |-> MissingReference(body)]]
  ELSE LET created == InsertedScenario(body, store.scenarios_id_seq + 1, store.clock)
       IN [db |-> [store EXCEPT !.scenarios = WithRow(@, created),
                                !.scenarios_id_seq = @ + 1],
           response |-> [status |-> 201, body |-> created]]

\* an update that deviates from the code: the fields the body does not have
\* are set back to what a new scenario gets
UpdatedScenarioReplaced(row, body, now) ==
  [InsertedScenario(body @@ [name |-> row.name], row.id, now)
     EXCEPT !.created_at = row.created_at]

\* the row after UPDATE scenarios SET <field = value of every field the body
\* has>, updated_at = CURRENT_TIMESTAMP
UpdatedScenario(row, body, now) ==
  [f \in DOMAIN row |->
     IF f \in ScenarioFields /\ f \in DOMAIN body
       THEN IF f \in ScenarioBooleanFields
              THEN (IF Truthy(body[f]) THEN 1 ELSE 0)
              ELSE body[f]
     ELSE IF f = "updated_at" THEN now
     ELSE row[f]]

\* PUT /:id : update a scenario (a statement that breaks a foreign key is
\* refused by the database, the catch block answers 500)
UpdateScenario(store, id, body) ==
  IF id \notin DOMAIN store.scenarios
    THEN [db |-> store, response |-> [status |-> 404, error |-> "Scenario not found"]]
  ELSE IF ScenarioFields \cap DOMAIN body = {}
    THEN [db |-> store, response |-> [status |-> 400, error |-> "No fields to update"]]
  ELSE IF MissingReference(body) # ""
    THEN [db |-> store, response |-> [status |-> 400, error |-> MissingReference(body)]]
  ELSE LET updated == UpdatedScenario(store.scenarios[id], body, store.clock)
       IN IF ~ScenarioReferencesHold(updated)
            THEN [db |-> store,
                  response |-> [status |-> 500, error |-> "Failed to update scenario"]]
            ELSE [db |-> [store EXCEPT !.scenarios = WithRow(@, updated)],
                  response |-> [status |-> 200, body |-> updated]]

\* a delete that deviates from the schema: the snapshots are left alone
SnapshotsLeftAfterPlainDelete(snapshots, id) == snapshots

\* analysis_snapshots after DELETE FROM scenarios WHERE id = ? :
\* scenario_id REFERENCES scenarios(id) ON DELETE CASCADE
SnapshotsLeftAfterDelete(snapshots, id) ==
  [k \in {j \in DOMAIN snapshots : snapshots[j].scenario_id # id} |-> snapshots[k]]

\* DELETE /:id
DeleteScenario(store, id) ==
  IF id \notin DOMAIN store.scenarios
    THEN [db |-> store, response |-> [status |-> 404, error |-> "Scenario not found"]]
  ELSE [db |-> [store EXCEPT !.scenarios = WithoutRow(@, id),
                             !.analysis_snapshots = SnapshotsLeftAfterDelete(@, id)],
        response |-> [status |-> 200, body |-> [message |-> "Scenario deleted", id |-> id]]]

\* req.body.result_data, the empty string when the body has none
ResultDataOf(body) == IF "result_data" \in DOMAIN body THEN body.result_data ELSE ""

\* POST /:id/snapshot up to its INSERT: the answer sent before it, if any
SnapshotRefusal(store, id, body) ==
  IF id \notin DOMAIN store.scenarios
    THEN [status |-> 404, error |-> "Scenario not found"]
  ELSE IF ResultDataOf(body) = ""
    THEN [status |-> 400, error |-> "Missing required field: result_data"]
  ELSE NoResponse

\* POST /:id/snapshot from its INSERT on (the database refuses a row whose
\* scenario_id has no scenario, the catch block answers 500)
InsertSnapshot(store, id, body) ==
  IF id \notin DOMAIN store.scenarios
    THEN [db |-> store, response |-> [status |-> 500, error |-> "Failed to save snapshot"]]
  ELSE LET created ==
             [id |-> store.analysis_snapshots_id_seq + 1,
              scenario_id |-> id,
              name |-> IF NameOf(body) = "" THEN "Snapshot" ELSE body.name,
              result_data |-> body.result_data,
              calculated_at |-> store.clock]
       IN [db |-> [store EXCEPT !.analysis_snapshots = WithRow(@, created),
                                !.analysis_snapshots_id_seq = @ + 1],
           response |-> [status |-> 201, body |-> created]]

\* ------------------------------------------------------------------------
\* State
\* ------------------------------------------------------------------------
VARIABLES
  input,         \* the resolved data record handed to an engine
  result,        \* what runAnalysis returned for it (NoResult before the run)
  previous,      \* what the run before that one returned (NoResult if none)
  full,          \* what calculateFullAnalysis returned for it (NoFull before)
  request,       \* the request being served (NoRequest when idle)
  response,      \* the response sent for it (NoResponse before)
  analysisCalls, \* the scenario ids runAnalysis was invoked for, in order
  db,            \* the tables the scenario and task routes write (NoDb if unused)
  pending,       \* the handler suspended at an await (NoPending if none)
  server         \* where startServer stands (NoServer before it is called)

vars == <<input, result, previous, full, request, response, analysisCalls,
          db, pending, server>>

\* ------------------------------------------------------------------------
\* The engines run on a resolved input: one call per behaviour
\* ------------------------------------------------------------------------
InitEngine ==
  /\ input \in EngineInputs
  /\ result = NoResult
  /\ previous = NoResult
  /\ full = NoFull
  /\ request = NoRequest
  /\ response = NoResponse
  /\ analysisCalls = <<>>
  /\ db = NoDb
  /\ pending = NoPending
  /\ server = NoServer

\* the stamp of the last run (the clock does not run backwards)
LastStamp == IF result = NoResult \/ result.threw THEN 0 ELSE result.calculated_at

\* runAnalysis is called on the input while the clock reads now
RunAnalysisAt(now) ==
  /\ full = NoFull
  /\ now >= LastStamp
  /\ previous' = result
  /\ result' = runAnalysisAt(input, now)
  /\ UNCHANGED <<input, full, request, response, analysisCalls, db, pending, server>>

RunAnalysis == result = NoResult /\ RunAnalysisAt(0)

CalculateFullAnalysis ==
  /\ result = NoResult /\ full = NoFull
  /\ full' = calculateFullAnalysis(ConfigOf(input))
  /\ UNCHANGED <<input, result, previous, request, response, analysisCalls, db, pending, server>>

NextEngine == RunAnalysis \/ CalculateFullAnalysis

SpecEngine == InitEngine /\ [][NextEngine]_vars

\* ------------------------------------------------------------------------
\* runAnalysis is run again and again on one resolved input while time passes
\* ------------------------------------------------------------------------
InitRepeat ==
  /\ input \in RepeatInputs
  /\ result = NoResult
  /\ previous = NoResult
  /\ full = NoFull
  /\ request = NoRequest
  /\ response = NoResponse
  /\ analysisCalls = <<>>
  /\ db = NoDb
  /\ pending = NoPending
  /\ server = NoServer

RunAnalysisAgain == \E now \in Instants : RunAnalysisAt(now)

NextRepeat == RunAnalysisAgain

SpecRepeat == InitRepeat /\ [][NextRepeat]_vars

\* ------------------------------------------------------------------------
\* The analysis routes: one request per behaviour
\* ------------------------------------------------------------------------
InitRoutes ==
  /\ input = NoData
  /\ result = NoResult
  /\ previous = NoResult
  /\ full = NoFull
  /\ request = NoRequest
  /\ response = NoResponse
  /\ analysisCalls = <<>>
  /\ db = NoDb
  /\ pending = NoPending
  /\ server = NoServer

Serve(op, body, served) ==
  /\ request = NoRequest
  /\ request' = [op |-> op, body |-> body]
  /\ response' = served.response
  /\ analysisCalls' = served.calls
  /\ UNCHANGED <<input, result, previous, full, db, pending, server>>

PostCalculate == \E body \in CalculateBodies : Serve("calculate", body, Calculate(body))

PostCompare == \E body \in CompareBodies : Serve("compare", body, Compare(body))

PostQuickCalculate ==
  \E body \in QuickBodies : Serve("quick-calculate", body, QuickCalculate(body))

NextRoutes == PostCalculate \/ PostCompare \/ PostQuickCalculate

SpecRoutes == InitRoutes /\ [][NextRoutes]_vars

\* ------------------------------------------------------------------------
\* The lifecycle helpers are called directly: one call per behaviour.  The
\* call is kept in request and its outcome in response: the value returned,
\* or "hangs" for a call that never returns; neither helper has a throw
\* statement or calls anything that throws on a number.
\* ------------------------------------------------------------------------
Call(op, life, shape, rest, outcome) ==
  /\ request = NoRequest
  /\ request' = [op |-> op, expectedLifeHours |-> life, weibullShape |-> shape] @@ rest
  /\ response' = outcome
  /\ UNCHANGED <<input, result, previous, full, analysisCalls, db, pending, server>>

GenerateFailureCurve ==
  \E life \in MeanLives, shape \in WeibullShapes, points \in CurvePoints :
    Call("generateFailureCurve", life, shape, [points |-> points],
         [outcome |-> "returned",
          value |-> generateFailureCurve(I(life), I(shape), points)])

OptimalReplacementInterval ==
  \E life \in MeanLives, shape \in WeibullShapes, cost \in PlannedCosts, mult \in CostMultipliers :
    LET found == optimalReplacementInterval(I(life), I(shape), I(cost), I(mult))
    IN Call("optimalReplacementInterval", life, shape,
            [plannedCost |-> cost, unplannedCostMultiplier |-> mult],
            IF found.hangs THEN [outcome |-> "hangs"]
            ELSE [outcome |-> "returned", value |-> found])

GenerateReplacementSchedule ==
  \E components \in ComponentLists, totalUnits \in FleetSizes,
     avgAnnualHours \in AnnualHours, periodYears \in 0..MaxPeriod :
    /\ request = NoRequest
    /\ request' = [op |-> "generateReplacementSchedule", components |-> components,
                   totalUnits |-> totalUnits, avgAnnualHours |-> avgAnnualHours,
                   periodYears |-> periodYears]
    /\ response' = [outcome |-> "returned",
                    value |-> generateReplacementSchedule(components, totalUnits,
                                                          avgAnnualHours, periodYears)]
    /\ UNCHANGED <<input, result, previous, full, analysisCalls, db, pending, server>>

NextLifecycle ==
  GenerateFailureCurve \/ OptimalReplacementInterval \/ GenerateReplacementSchedule

SpecLifecycle == InitRoutes /\ [][NextLifecycle]_vars

\* ------------------------------------------------------------------------
\* The PM task routes (routes/maintenance.js) on the table pm_tasks
\* ------------------------------------------------------------------------
PmTaskFields ==
  {"name", "description", "interval_hours", "interval_months", "labor_hours",
   "skill_level", "is_one_time", "is_automated", "is_locked",
   "can_extend_interval", "max_extension_pct", "sort_order"}

PmTaskBooleanFields == {"is_one_time", "is_automated", "is_locked", "can_extend_interval"}

\* req.body[field] of a text field, the empty string when the body has none
TextOf(body, field, dflt) == IF field \in DOMAIN body THEN body[field] ELSE dflt

\* the row INSERT INTO pm_tasks stores for a body: POST /schedules/:id/tasks
InsertedPmTask(scheduleId, body, id) ==
  [id |-> id,
   pm_schedule_id |-> scheduleId,
   name |-> NameOf(body),
   description |-> TextOf(body, "description", ""),
   interval_hours |-> IF Truthy(Given(body, "interval_hours"))
                        THEN body.interval_hours ELSE NULL,
   interval_months |-> IF Truthy(Given(body, "interval_months"))
                         THEN body.interval_months ELSE NULL,
   labor_hours |-> Coalesce(Given(body, "labor_hours"), 1),
   skill_level |-> IF TextOf(body, "skill_level", "") = ""
                     THEN "technician" ELSE body.skill_level,
   is_one_time |-> IF Truthy(Given(body, "is_one_time")) THEN 1 ELSE 0,
   is_automated |-> IF Truthy(Given(body, "is_automated")) THEN 1 ELSE 0,
   is_locked |-> IF Truthy(Given(body, "is_locked")) THEN 1 ELSE 0,
   can_extend_interval |-> IF Given(body, "can_extend_interval") # 0 THEN 1 ELSE 0,
   max_extension_pct |-> IF "max_extension_pct" \in DOMAIN body
                           THEN body.max_extension_pct ELSE Q(3, 5),
   sort_order |-> Coalesce(Given(body, "sort_order"), 0)]

\* POST /schedules/:id/tasks
CreatePmTask(store, scheduleId, body) ==
  IF scheduleId \notin PmScheduleIds
    THEN [db |-> store, response |-> [status |-> 404, error |-> "PM schedule not found"]]
  ELSE IF NameOf(body) = ""
    THEN [db |-> store, response |-> [status |-> 400, error |-> "Missing required field: name"]]
  ELSE IF /\ ~Truthy(Given(body, "interval_hours"))
          /\ ~Truthy(Given(body, "interval_months"))
          /\ ~Truthy(Given(body, "is_one_time"))
    THEN [db |-> store,
          response |-> [status |-> 400,
                        error |-> "Task must have interval_hours, interval_months, or be marked as is_one_time"]]
  ELSE LET created == InsertedPmTask(scheduleId, body, store.pm_tasks_id_seq + 1)
       IN [db |-> [store EXCEPT !.pm_tasks = WithRow(@, created),
                                !.pm_tasks_id_seq = @ + 1],
           response |-> [status |-> 201, body |-> created]]

\* the row after UPDATE pm_tasks SET <field = value of every field the body has>
UpdatedPmTask(row, body) ==
  [f \in DOMAIN row |->
     IF f \in PmTaskFields /\ f \in DOMAIN body
       THEN IF f \in PmTaskBooleanFields
              THEN (IF Truthy(body[f]) THEN 1 ELSE 0)
              ELSE body[f]
       ELSE row[f]]

\* PUT /tasks/:taskId (labor_hours is REAL NOT NULL: the statement that
\* sets it to null is refused, the catch block answers 500)
UpdatePmTask(store, id, body) ==
  IF id \notin DOMAIN store.pm_tasks
    THEN [db |-> store, response |-> [status |-> 404, error |-> "PM task not found"]]
  ELSE IF PmTaskFields \cap DOMAIN body = {}
    THEN [db |-> store, response |-> [status |-> 400, error |-> "No fields to update"]]
  ELSE LET updated == UpdatedPmTask(store.pm_tasks[id], body)
       IN IF updated.labor_hours = NULL
            THEN [db |-> store,
                  response |-> [status |-> 500, error |-> "Failed to update task"]]
            ELSE [db |-> [store EXCEPT !.pm_tasks = WithRow(@, updated)],
                  response |-> [status |-> 200, body |-> updated]]

\* DELETE /tasks/:taskId
DeletePmTask(store, id) ==
  IF id \notin DOMAIN store.pm_tasks
    THEN [db |-> store, response |-> [status |-> 404, error |-> "PM task not found"]]
  ELSE [db |-> [store EXCEPT !.pm_tasks = WithoutRow(@, id)],
        response |-> [status |-> 200, body |-> [message |-> "PM task deleted", id |-> id]]]

\* ------------------------------------------------------------------------
\* The scenario routes serve requests one after the other on the tables; a
\* snapshot request is suspended between its lookup and its INSERT, where
\* other requests are served
\* ------------------------------------------------------------------------
\* bodies of POST /
CreateBodies ==
  {[name |-> "A", fleet_id |-> 1, pm_schedule_id |-> 1, price_list_id |-> 1],
   [name |-> "B", labor_rate |-> 90, include_fuel_costs |-> 0],
   [name |-> "C", fleet_id |-> 9],
   [labor_rate |-> 90]}

\* bodies of PUT /:id
UpdateBodies ==
  {<<>>,
   [comment |-> "x"],
   [name |-> "B"],
   [labor_rate |-> 90, comment |-> "x"],
   [include_fuel_costs |-> 0, fleet_id |-> 2],
   [fleet_id |-> NULL],
   [fleet_id |-> 0],
   [fleet_id |-> 9],
   [pm_schedule_id |-> 9, name |-> "B"],
   [price_list_id |-> 9, labor_rate |-> 90]}

\* bodies of POST /:id/snapshot
SnapshotBodies ==
  {[result_data |-> "{tco}"], [name |-> "baseline", result_data |-> "{tco}"],
   [name |-> "baseline"]}

\* the ids a scenario request can name: every id issued so far or next
ScenarioIds == 1..(MaxScenarios + 1)

EmptyStore ==
  [scenarios |-> <<>>, scenarios_id_seq |-> 0,
   analysis_snapshots |-> <<>>, analysis_snapshots_id_seq |-> 0, clock |-> 0]

\* the tables after the first scenario was created
InitScenarios ==
  /\ input = NoData
  /\ result = NoResult
  /\ previous = NoResult
  /\ full = NoFull
  /\ request = NoRequest
  /\ response = NoResponse
  /\ analysisCalls = <<>>
  /\ db = [CreateScenario(EmptyStore,
                          [name |-> "A", fleet_id |-> 1, pm_schedule_id |-> 1,
                           price_list_id |-> 1]).db EXCEPT !.clock = 1]
  /\ pending = NoPending
  /\ server = NoServer

\* a request is answered: the tables are as the handler leaves them and the
\* clock moves on
Answer(op, id, body, served) ==
  /\ db.clock < MaxClock
  /\ request' = [op |-> op, id |-> id, body |-> body]
  /\ response' = served.response
  /\ db' = [served.db EXCEPT !.clock = @ + 1]
  /\ UNCHANGED <<input, result, previous, full, analysisCalls, server>>

PostScenario ==
  \E body \in CreateBodies :
    /\ db.scenarios_id_seq < MaxScenarios
    /\ Answer("POST /", NULL, body, CreateScenario(db, body))
    /\ UNCHANGED pending

PutScenario ==
  \E id \in ScenarioIds, body \in UpdateBodies :
    /\ Answer("PUT /:id", id, body, UpdateScenario(db, id, body))
    /\ UNCHANGED pending

DeleteScenarioById ==
  \E id \in ScenarioIds :
    /\ Answer("DELETE /:id", id, <<>>, DeleteScenario(db, id))
    /\ UNCHANGED pending

\* POST /:id/snapshot looks the scenario up and checks the body: it answers
\* 404 or 400 at once, or goes on to its INSERT
PostSnapshot ==
  \E id \in ScenarioIds, body \in SnapshotBodies :
    /\ pending = NoPending
    /\ db.analysis_snapshots_id_seq < MaxSnapshots
    /\ IF SnapshotRefusal(db, id, body) # NoResponse
         THEN /\ Answer("POST /:id/snapshot", id, body,
                        [db |-> db, response |-> SnapshotRefusal(db, id, body)])
              /\ UNCHANGED pending
         ELSE /\ pending' = [op |-> "POST /:id/snapshot", id |-> id, body |-> body]
              /\ UNCHANGED <<input, result, previous, full, request, response,
                             analysisCalls, db, server>>

\* the INSERT of the suspended snapshot request and its answer
PostSnapshotInsert ==
  /\ pending # NoPending
  /\ Answer(pending.op, pending.id, pending.body,
            InsertSnapshot(db, pending.id, pending.body))
  /\ pending' = NoPending

NextScenarios ==
  PostScenario \/ PutScenario \/ DeleteScenarioById \/ PostSnapshot \/ PostSnapshotInsert

SpecScenarios == InitScenarios /\ [][NextScenarios]_vars

\* ------------------------------------------------------------------------
\* The PM task routes serve requests one after the other on pm_tasks
\* ------------------------------------------------------------------------
\* bodies of POST /schedules/:id/tasks
PmTaskCreateBodies ==
  {[name |-> "oil change", interval_hours |-> 500],
   [name |-> "annual service", interval_months |-> 12, labor_hours |-> 2],
   [name |-> "commissioning", is_one_time |-> 1],
   [name |-> "unscheduled"],
   [name |-> "zero", interval_hours |-> 0, interval_months |-> NULL, is_one_time |-> 0],
   [interval_hours |-> 500]}

\* bodies of PUT /tasks/:taskId
PmTaskUpdateBodies ==
  {<<>>,
   [comment |-> "x"],
   [labor_hours |-> 3],
   [labor_hours |-> NULL],
   [interval_hours |-> NULL],
   [interval_hours |-> 0],
   [interval_months |-> 6],
   [is_one_time |-> 0],
   [interval_hours |-> NULL, interval_months |-> 12],
   [skill_level |-> "engineer", is_locked |-> 1]}

\* the ids a task request can name: every id issued so far or next
PmTaskIds == 1..(MaxPmTasks + 1)

\* the schedules a request can name: the stored ones and one that is not
RequestedScheduleIds == PmScheduleIds \cup {9}

InitPmTasks ==
  /\ input = NoData
  /\ result = NoResult
  /\ previous = NoResult
  /\ full = NoFull
  /\ request = NoRequest
  /\ response = NoResponse
  /\ analysisCalls = <<>>
  /\ db = [pm_tasks |-> <<>>, pm_tasks_id_seq |-> 0, clock |-> 0]
  /\ pending = NoPending
  /\ server = NoServer

PostPmTask ==
  \E scheduleId \in RequestedScheduleIds, body \in PmTaskCreateBodies :
    /\ db.pm_tasks_id_seq < MaxPmTasks
    /\ Answer("POST /schedules/:id/tasks", scheduleId, body,
              CreatePmTask(db, scheduleId, body))
    /\ UNCHANGED pending

PutPmTask ==
  \E id \in PmTaskIds, body \in PmTaskUpdateBodies :
    /\ Answer("PUT /tasks/:taskId", id, body, UpdatePmTask(db, id, body))
    /\ UNCHANGED pending

DeletePmTaskById ==
  \E id \in PmTaskIds :
    /\ Answer("DELETE /tasks/:taskId", id, <<>>, DeletePmTask(db, id))
    /\ UNCHANGED pending

NextPmTasks == PostPmTask \/ PutPmTask \/ DeletePmTaskById

SpecPmTasks == InitPmTasks /\ [][NextPmTasks]_vars

\* ------------------------------------------------------------------------
\* Server startup (server/index.js): startServer retries the database
\* initialization, then listens
\* ------------------------------------------------------------------------
maxRetries == 10

\* the messages a rejected initialize() carries: the database refuses the
\* connection, or answers the schema statement with an error
ErrorMessages == {"ECONNREFUSED", "the database system is starting up"}

\* a delay that deviates from the code: it keeps growing with the attempt
RetryDelayUncapped(attempt) == 2000 * attempt

\* const delay = 2000 * Math.min(attempt, 5)
RetryDelay(attempt) == 2000 * (IF attempt < 5 THEN attempt ELSE 5)

\* the process before startServer() is called
InitStartup ==
  /\ input = NoData
  /\ result = NoResult
  /\ previous = NoResult
  /\ full = NoFull
  /\ request = NoRequest
  /\ response = NoResponse
  /\ analysisCalls = <<>>
  /\ db = NoDb
  /\ pending = NoPending
  /\ server = NoServer

Step(next) ==
  /\ server' = next
  /\ UNCHANGED <<input, result, previous, full, request, response, analysisCalls,
                 db, pending>>

\* startServer() is called when the module is loaded: the loop starts at
\* attempt 1
StartServer ==
  /\ server = NoServer
  /\ Step([pc |-> "call", attempt |-> 1, initializeCalls |-> 0, initialized |-> FALSE,
           failures |-> <<>>, delays |-> <<>>, listenCalls |-> 0])

\* the loop calls initialize() and awaits it
CallInitialize ==
  /\ server.pc = "call"
  /\ server.attempt <= maxRetries
  /\ Step([server EXCEPT !.initializeCalls = @ + 1, !.pc = "await initialize"])

\* initialize() resolves: break
InitializeResolves ==
  /\ server.pc = "await initialize"
  /\ Step([server EXCEPT !.initialized = TRUE, !.pc = "listen"])

\* initialize() rejects: the catch block logs the failure, then gives up
\* after the last attempt or sets the timer of the retry
InitializeRejects ==
  \E message \in ErrorMessages :
    /\ server.pc = "await initialize"
    /\ IF server.attempt = maxRetries
         THEN Step([server EXCEPT !.failures = Append(@, message), !.pc = "listen"])
         ELSE Step([server EXCEPT !.failures = Append(@, message),
                                  !.delays = Append(@, RetryDelay(server.attempt)),
                                  !.pc = "await timer"])

\* the timer fires: attempt++
TimerFires ==
  /\ server.pc = "await timer"
  /\ Step([server EXCEPT !.attempt = @ + 1, !.pc = "call"])

\* app.listen(...)
Listen ==
  /\ server.pc = "listen"
  /\ Step([server EXCEPT !.listenCalls = @ + 1, !.pc = "listening"])

NextStartup ==
  \/ StartServer
  \/ CallInitialize
  \/ InitializeResolves
  \/ InitializeRejects
  \/ TimerFires
  \/ Listen

SpecStartup == InitStartup /\ [][NextStartup]_vars

\* the event loop runs every continuation that is ready: a call that was
\* made settles, a timer that was set fires, a step that is next is taken
SpecStartupFair ==
  /\ SpecStartup
  /\ WF_vars(StartServer)
  /\ WF_vars(CallInitialize)
  /\ WF_vars(InitializeResolves \/ InitializeRejects)
  /\ WF_vars(TimerFires)
  /\ WF_vars(Listen)

Computed == result # NoResult

FullComputed == full # NoFull
\* ------------------------------------------------------------------------
\* Claims about the engines
\* ------------------------------------------------------------------------
\* the projection years after year 1 of the run
LaterYears == 2..Len(result.annual_projections)

OnlyOneTimeTasks ==
  /\ input.pmTasks # <<>>
  /\ \A i \in 1..Len(input.pmTasks) : Truthy(input.pmTasks[i].is_one_time)

\* C1: a one-time task is costed once per unit (services per year =
\* totalUnits, labor cost = totalUnits x labor_hours x rate) and is recognized
\* only in year 1: a run whose only tasks are one-time has maintenance cost 0
\* in every projection year >= 2, whatever the overhead markup.
C1_OneTimeOnlyInYearOne ==
  (Computed /\ OnlyOneTimeTasks) =>
    /\ \A i \in 1..Len(input.pmTasks) :
         /\ result.pm_task_breakdown[i].services_per_year = result.fleet_summary.total_units
         /\ result.pm_task_breakdown[i].labor_cost_per_year =
              Mul(Mul(result.fleet_summary.total_units, I(input.pmTasks[i].labor_hours)),
                  getLaborRate(input.scenario, input.pmTasks[i].skill_level))
    /\ \A y \in LaterYears : result.annual_projections[y].maintenance_cost = Zero

C1_Witness ==
  /\ Computed /\ OnlyOneTimeTasks
  /\ input.scenario.overhead_markup_pct = 15
  /\ input.scenario.inflation_rate_pct = 0
  /\ result.maintenance_cost_summary.annual_labor_cost = I(2000)
  /\ \E y \in LaterYears : result.annual_projections[y].maintenance_cost = I(300)

\* the run of the scheduler example
HorizonRun == Computed /\ input = HorizonExample

\* the years of the events of the k-th component of the run
EventYears(k) ==
  LET schedule == result.component_replacements.components[k].schedule
  IN [n \in 1..Len(schedule) |-> schedule[n].year]

\* C2 as stated: life 8760 h on a unit running 8760 h per year over 20 years
\* yields exactly 19 events, in years 1..19; the event of year 20 is dropped.
C2_NineteenEvents ==
  HorizonRun =>
    /\ Len(result.component_replacements.components) = 1
    /\ EventYears(1) = [n \in 1..19 |-> n]

\* the expected life of the named component equals the annual hours of every
\* unit it is fitted to
LifeIsOneYear(name) ==
  \A l \in 1..Len(input.componentLifecycles), u \in 1..Len(input.fleetUnits) :
    (/\ input.componentLifecycles[l].component_name = name
     /\ input.fleetUnits[u].equipment_model_id =
          input.componentLifecycles[l].equipment_model_id) =>
      UnitHours(input.fleetUnits[u]) = input.componentLifecycles[l].expected_life_hours

\* C2: a component whose expected life equals the annual hours of its unit
\* is replaced once in every year of the analysis period, the horizon year
\* included: the scheduler example (life 8760 h, 8760 h per year, 20 years)
\* has exactly 20 events, in years 1..20.
C2_EventOnHorizonScheduled ==
  Computed =>
    /\ \A k \in 1..Len(result.component_replacements.components) :
         LifeIsOneYear(result.component_replacements.components[k].component_name) =>
           EventYears(k) = [n \in 1..input.scenario.analysis_period_years |-> n]
    /\ input = HorizonExample =>
         /\ Len(result.component_replacements.components) = 1
         /\ EventYears(1) = [n \in 1..20 |-> n]

C2_Witness == HorizonRun /\ Len(EventYears(1)) = 20 /\ EventYears(1)[20] = 20

\* the tasks that are automated or switched off
Idle(task) == Truthy(task.is_automated) \/ task.enabled = FALSE

\* a breakdown row that costs nothing and carries the status of its task
IdleRow(row, task) ==
  /\ row.services_per_year = Zero
  /\ row.labor_hours_per_year = Zero
  /\ row.labor_cost_per_year = Zero
  /\ row.parts_cost_per_year = Zero
  /\ "status" \in DOMAIN row
  /\ row.status = IF Truthy(task.is_automated) THEN "automated" ELSE "disabled"

\* C3: every automated or disabled task contributes zero services, labor
\* hours, labor cost and parts cost to the annual totals of an analysis, and
\* still has a breakdown row carrying the status automated or disabled.
C3_IdleTasksCostNothing ==
  /\ Computed =>
       /\ Len(result.pm_task_breakdown) = Len(input.pmTasks)
       /\ \A i \in 1..Len(input.pmTasks) :
            Idle(input.pmTasks[i]) => IdleRow(result.pm_task_breakdown[i], input.pmTasks[i])
  /\ FullComputed =>
       /\ Len(full.task_breakdown) = Len(input.pmTasks)
       /\ \A i \in 1..Len(input.pmTasks) :
            Idle(input.pmTasks[i]) => IdleRow(full.task_breakdown[i], input.pmTasks[i])

C3_Witness ==
  /\ Computed
  /\ \E i \in 1..Len(input.pmTasks) :
       /\ Truthy(input.pmTasks[i].is_automated)
       /\ Gt(result.pm_task_breakdown[i].labor_cost_per_year, Zero)
       /\ "status" \notin DOMAIN result.pm_task_breakdown[i]

\* discount rate 0 and inflation rate 0
FlatRates == input.scenario.discount_rate_pct = 0 /\ input.scenario.inflation_rate_pct = 0

\* the annual total cost of the run: maintenance, fuel and downtime
AnnualTotalCost ==
  Add(Add(result.maintenance_cost_summary.total_annual_maintenance_cost,
          result.fuel_summary.annual_fuel_cost),
      result.downtime_summary.annual_downtime_cost)

LastCumulative ==
  result.annual_projections[Len(result.annual_projections)].cumulative_cost

OnlyRecurringCosts ==
  /\ \A i \in 1..Len(input.pmTasks) : ~Truthy(input.pmTasks[i].is_one_time)
  /\ \A k \in 1..Len(result.component_replacements.components) :
       result.component_replacements.components[k].schedule = <<>>
  /\ IsFinite(result.locals.annualDowntimeCost)

\* the annual total cost the year loop works with, before rounding
UnroundedAnnualTotalCost ==
  Add(Add(result.locals.totalAnnualMaintenanceCost, result.locals.annualFuelCost),
      result.locals.annualDowntimeCost)

RECURSIVE PresentValue(_, _, _)
PresentValue(totals, rate, n) ==
  IF n = 0 THEN Zero
  ELSE Add(PresentValue(totals, rate, n - 1), Div(totals[n], Pow(Add(One, rate), n)))

\* sum over y = 1..n of totals[y]
RECURSIVE RunningSum(_, _)
RunningSum(totals, n) ==
  IF n = 0 THEN Zero ELSE Add(RunningSum(totals, n - 1), totals[n])

RunTotals == [y \in 1..Len(result.locals.yearFigures) |-> result.locals.yearFigures[y].total]

FullTotals == [y \in 1..Len(full.locals.years) |-> full.locals.years[y].yearTotal]

DiscountRate == Div(I(input.scenario.discount_rate_pct), I(100))

\* C5: both projections accumulate NPV as the sum over y = 1..period of the
\* year total divided by (1 + discountRate)^y and the cumulative nominal cost
\* as the running sum of the year totals; with discountRate = 0 the total NPV
\* equals the total nominal cumulative cost.
C5_NpvAndCumulative ==
  /\ Computed =>
       /\ result.tco.total_npv =
            round2(PresentValue(RunTotals, DiscountRate, Len(RunTotals)))
       /\ \A y \in 1..Len(RunTotals) :
            /\ result.annual_projections[y].cumulative_cost = round2(RunningSum(RunTotals, y))
            /\ result.annual_projections[y].npv_of_year =
                 round2(Div(RunTotals[y], Pow(Add(One, DiscountRate), y)))
       /\ result.tco.total_nominal = round2(RunningSum(RunTotals, Len(RunTotals)))
       /\ input.scenario.discount_rate_pct = 0 =>
            result.tco.total_npv = result.tco.total_nominal
  /\ FullComputed =>
       /\ full.summary.npv_total_cost =
            Round(PresentValue(FullTotals, DiscountRate, Len(FullTotals)))
       /\ \A y \in 1..Len(FullTotals) :
            /\ full.yearly_projection[y].cumulative = Round(RunningSum(FullTotals, y))
            /\ full.yearly_projection[y].npv_cumulative =
                 Round(PresentValue(FullTotals, DiscountRate, y))
       /\ input.scenario.discount_rate_pct = 0 =>
            full.summary.npv_total_cost =
              full.yearly_projection[Len(FullTotals)].cumulative

C5_Witness ==
  /\ Computed
  /\ input.scenario.discount_rate_pct = 100
  /\ input.scenario.analysis_period_years = 3
  /\ Gt(result.tco.total_npv, Zero)
  /\ Lt(result.tco.total_npv, result.tco.total_nominal)

\* ------------------------------------------------------------------------
\* Claims about the analysis routes
\* ------------------------------------------------------------------------
\* the request being served is a comparison of at least two ids
Comparing == request.op = "compare" /\ Len(request.body.scenario_ids) >= 2

\* the comparison answered with a summary of at least two computed scenarios
ComparedTwo ==
  /\ Comparing
  /\ response.status = 200
  /\ Len(response.body.scenarios) >= 2

\* C6: in a comparison where at least two scenarios were computed, lowest_tco
\* names a computed scenario whose tco_npv is less than or equal to that of
\* every computed scenario, and savings_vs_highest is the maximum tco_npv minus
\* the minimum tco_npv over the computed scenarios.
C6_LowestTco ==
  ComparedTwo =>
    /\ "lowest_tco" \in DOMAIN response.body
    /\ LET rows == response.body.scenarios
           lowest == response.body.lowest_tco
       IN /\ \E i \in 1..Len(rows) :
               /\ rows[i].scenario_id = lowest.scenario_id
               /\ rows[i].tco_npv = lowest.tco_npv
               /\ \A j \in 1..Len(rows) : Le(rows[i].tco_npv, rows[j].tco_npv)
          /\ \E lo, hi \in 1..Len(rows) :
               /\ \A j \in 1..Len(rows) :
                    Le(rows[lo].tco_npv, rows[j].tco_npv) /\ Le(rows[j].tco_npv, rows[hi].tco_npv)
               /\ lowest.savings_vs_highest = Sub(rows[hi].tco_npv, rows[lo].tco_npv)

C6_Witness ==
  /\ ComparedTwo
  /\ request.body.scenario_ids = <<1, 2>>
  /\ response.body.scenarios[1].tco_npv = I(331700)
  /\ response.body.scenarios[2].tco_npv = I(317700)
  /\ response.body.lowest_tco.scenario_id = 2
  /\ response.body.lowest_tco.savings_vs_highest = I(14000)

\* the id has a scenario row with a fleet reference, a PM-schedule reference
\* and at least one fleet unit
Complete(id) ==
  /\ id \in 1..Len(ScenarioTable)
  /\ Truthy(ScenarioTable[id].fleet_id)
  /\ Truthy(ScenarioTable[id].pm_schedule_id)
  /\ FleetUnitRows(ScenarioTable[id].fleet_id) # <<>>

\* the id is not found, is incomplete, or its calculation throws
Fails(id) == ~Complete(id) \/ AnalysisRuns[id].threw

Succeeds(id) == ~Fails(id)

\* the per-scenario errors of the comparison response
ReportedErrors ==
  IF response.status = 200
    THEN (IF "errors" \in DOMAIN response.body THEN response.body.errors ELSE <<>>)
    ELSE response.details

\* C7: for any request list of at least two ids, the errors of the response
\* hold exactly one entry per listed id that is not found, has no fleet, has
\* no PM schedule, has an empty fleet or throws during calculation, in request
\* order, and the full results are those of the remaining ids, in request
\* order, each equal to the analysis of that scenario on its own; the
\* comparison is refused (400) only when no id is left.
C7_FailuresIsolated ==
  Comparing =>
    LET ids == request.body.scenario_ids
        failing == SelectSeq(ids, Fails)
        computed == SelectSeq(ids, Succeeds)
    IN /\ response.status = (IF computed = <<>> THEN 400 ELSE 200)
       /\ [k \in 1..Len(ReportedErrors) |-> ReportedErrors[k].scenario_id] = failing
       /\ response.status = 200 =>
            response.body.full_results = [k \in 1..Len(computed) |-> AnalysisRuns[computed[k]]]
       /\ analysisCalls = SelectSeq(ids, Complete)

C7_Witness ==
  /\ Comparing
  /\ request.body.scenario_ids = <<UnknownId, 1, 6>>
  /\ response.status = 200
  /\ response.body.errors =
       <<[scenario_id |-> UnknownId, error |-> "Scenario not found"],
         [scenario_id |-> 6, error |-> ThrownMessage]>>
  /\ Len(response.body.full_results) = 1
  /\ response.body.full_results[1].scenario_id = 1

\* the request being served is POST /calculate
Calculating == request.op = "calculate"

\* C8: POST /calculate with a missing scenario_id, an unknown scenario, a
\* scenario without fleet reference, without PM-schedule reference or whose
\* fleet has no units answers with an error (404 for the unknown scenario, 400
\* otherwise), carries no result, and runAnalysis was not invoked.
C8_ConfigErrorsBeforeComputation ==
  (Calculating /\ ~Complete(request.body.scenario_id)) =>
    /\ response.status =
         (IF request.body.scenario_id = UnknownId THEN 404 ELSE 400)
    /\ DOMAIN response = {"status", "error"}
    /\ analysisCalls = <<>>

C8_Witness ==
  /\ Calculating
  /\ request.body.scenario_id = 5
  /\ response = [status |-> 400, error |-> "Fleet has no units"]
  /\ analysisCalls = <<>>

\* the invariant set of a scenario: a positive analysis period, non-negative
\* rates and costs, a parts discount within [0, 100], a target utilization
\* within (0, 100], and a price-catalog reference
ValidConfig(scenario) ==
  /\ scenario.analysis_period_years > 0
  /\ scenario.labor_rate >= 0
  /\ scenario.labor_rate_specialist >= 0
  /\ scenario.labor_rate_engineer >= 0
  /\ scenario.fuel_cost_per_unit >= 0
  /\ scenario.downtime_cost_per_hour >= 0
  /\ scenario.parts_discount_pct >= 0 /\ scenario.parts_discount_pct <= 100
  /\ scenario.target_utilization_pct > 0 /\ scenario.target_utilization_pct <= 100
  /\ Truthy(scenario.price_list_id)

\* C9 as stated: a request whose scenario has an invalid analysis period,
\* invalid rate values or no price-catalog reference never gets a computed
\* result from calculate, compare or quick-calculate, and runAnalysis is not
\* invoked for it.
C9_InvalidConfigRejected ==
  /\ (Calculating /\ Complete(request.body.scenario_id)
        /\ ~ValidConfig(ScenarioTable[request.body.scenario_id])) =>
       (response.status # 200 /\ analysisCalls = <<>>)
  /\ (Comparing /\ response.status = 200) =>
       \A k \in 1..Len(response.body.full_results) :
         ValidConfig(ScenarioTable[response.body.full_results[k].scenario_id])
  /\ (request.op = "quick-calculate" /\ ~ValidConfig(QuickScenario(request.body))) =>
       (response.status # 200 /\ analysisCalls = <<>>)

\* a stored scenario with analysis period 0 is computed, into a zero TCO
C9_Witness ==
  /\ Calculating
  /\ request.body.scenario_id = 8
  /\ ScenarioTable[8].analysis_period_years = 0
  /\ response.status = 200
  /\ response.body.tco.total_npv = Zero
  /\ response.body.annual_projections = <<>>
  /\ analysisCalls = <<8>>

\* ------------------------------------------------------------------------
\* Claims about the lifecycle helpers
\* ------------------------------------------------------------------------
\* a helper was called with a Weibull shape <= 0 or a mean life <= 0
OutOfDomainCall ==
  /\ request.op \in {"generateFailureCurve", "optimalReplacementInterval"}
  /\ (request.weibullShape <= 0 \/ request.expectedLifeHours <= 0)

\* C10 as stated: generateFailureCurve and optimalReplacementInterval called
\* with a Weibull shape <= 0 or a mean life <= 0 fail with a domain error;
\* they do not return a result.
C10_DomainErrorsFailFast == OutOfDomainCall => response.outcome = "threw"

\* a negative mean life is answered with an infinite cost per hour
C10_Witness ==
  /\ OutOfDomainCall
  /\ request.op = "optimalReplacementInterval"
  /\ request.expectedLifeHours = -100
  /\ request.weibullShape = 1
  /\ response.outcome = "returned"
  /\ response.value.optimal_interval_hours = I(-100)
  /\ response.value.cost_per_hour = PosInf

\* the lifecycles of the input that belong to the model of a fleet unit
MatchedLifecycles ==
  {l \in 1..Len(input.componentLifecycles) :
     \E u \in 1..Len(input.fleetUnits) :
       input.fleetUnits[u].equipment_model_id
         = input.componentLifecycles[l].equipment_model_id}

\* the names of the matched components whose expected life is not positive
SkippedComponents ==
  {input.componentLifecycles[l].component_name :
     l \in {m \in MatchedLifecycles :
              input.componentLifecycles[m].expected_life_hours <= 0}}

\* the input without the lifecycles of non-positive expected life
WithoutSkipped ==
  [input EXCEPT !.componentLifecycles =
     SelectSeq(input.componentLifecycles, LAMBDA l : l.expected_life_hours > 0)]

\* the result says something about the component of that name: a warning
\* entry naming it, or a component_replacements row of that name
Flagged(name) ==
  \/ /\ "warnings" \in DOMAIN result
     /\ \E w \in 1..Len(result.warnings) : result.warnings[w].component_name = name
  \/ \E c \in 1..Len(result.component_replacements.components) :
       result.component_replacements.components[c].component_name = name

\* C11: a component lifecycle whose expected life is not positive fails only
\* that component's calculation: the run completes, every other figure (task
\* costs, staffing, fuel, the other components, the projection) is what it is
\* without that component, and the result carries a warning that identifies
\* each skipped component.
C11_SkippedComponentWarned ==
  (Computed /\ SkippedComponents # {}) =>
    /\ ~result.threw
    /\ result = runAnalysisAt(WithoutSkipped, result.calculated_at)
    /\ \A name \in SkippedComponents : Flagged(name)

\* the sensor of life 0 is dropped without a trace: the result is the one of
\* the belt alone and has no field that names the sensor
C11_Witness ==
  /\ Computed
  /\ input.componentLifecycles = <<BadLifecycle(0), BeltLifecycle>>
  /\ SkippedComponents = {"SENSOR"}
  /\ result = runAnalysisAt(WithoutSkipped, result.calculated_at)
  /\ Len(result.component_replacements.components) = 1
  /\ result.component_replacements.components[1].component_name = "BELT"
  /\ "warnings" \notin DOMAIN result
  /\ ~Flagged("SENSOR")

\* runAnalysis has run twice on the input
RanTwice == previous # NoResult /\ result # NoResult

\* a returned object without its calculated_at field
Unstamped(r) == [f \in DOMAIN r \ {"calculated_at"} |-> r[f]]

\* two runs on the same input returned identical output records
RunsAgree == RanTwice => result = previous

\* C12: the analysis is a pure function of its resolved input: running it
\* twice on identical resolved inputs produces identical output records, and
\* a run does not modify its input.
C12_PureFunction == [][input' = input]_vars /\ []RunsAgree

\* two runs one instant apart return objects that agree in every field but
\* calculated_at
C12_Witness ==
  /\ RanTwice
  /\ input = PlainInput
  /\ previous.calculated_at = 0
  /\ result.calculated_at = 1
  /\ result # previous
  /\ Unstamped(result) = Unstamped(previous)

\* the fleet figures of the input
FleetUnitsTotal == TotalUnits(input.fleetUnits)

FleetAvgHours == AvgAnnualHours(input.fleetUnits)

\* the annual service counts of the three recurrence rules
HoursBased(task) == Div(Mul(FleetUnitsTotal, FleetAvgHours), I(task.interval_hours))

CalendarBased(task) == Div(Mul(FleetUnitsTotal, I(12)), I(task.interval_months))

\* the services_per_year of the breakdown row of task i is count
Services(i, count) == result.pm_task_breakdown[i].services_per_year = round2(count)

CatalogPrice(partNumber) ==
  IF partNumber \in DOMAIN input.priceMap THEN I(input.priceMap[partNumber]) ELSE Zero

\* the sum over the non-optional parts of a task of
\* unit price x quantity x (1 - parts_discount_pct / 100)
RECURSIVE RequiredPartsCost(_)
RequiredPartsCost(parts) ==
  IF parts = <<>> THEN Zero
  ELSE Add(IF Truthy(Head(parts).is_optional) THEN Zero
           ELSE Mul(Mul(CatalogPrice(Head(parts).part_number), I(Head(parts).quantity)),
                    Sub(One, Q(input.scenario.parts_discount_pct, 100))),
           RequiredPartsCost(Tail(parts)))

\* the input with every optional part taken off its task
OptionalRemoved ==
  [input EXCEPT !.pmTasks =
     [i \in 1..Len(input.pmTasks) |->
        [input.pmTasks[i] EXCEPT !.parts = SelectSeq(@, LAMBDA p : ~Truthy(p.is_optional))]]]

\* the part numbers that occur on optional parts only
OptionalOnly ==
  {n \in DOMAIN input.priceMap :
     /\ \E i \in 1..Len(input.pmTasks) : \E k \in 1..Len(input.pmTasks[i].parts) :
          input.pmTasks[i].parts[k].part_number = n
     /\ \A i \in 1..Len(input.pmTasks) : \A k \in 1..Len(input.pmTasks[i].parts) :
          input.pmTasks[i].parts[k].part_number = n
            => Truthy(input.pmTasks[i].parts[k].is_optional)
     /\ \A l \in 1..Len(input.componentLifecycles) :
          input.componentLifecycles[l].component_name # n}

\* the input with every optional part priced 1000 higher
OptionalRepriced ==
  [input EXCEPT !.priceMap =
     [n \in DOMAIN input.priceMap |->
        IF n \in OptionalOnly THEN input.priceMap[n] + 1000 ELSE input.priceMap[n]]]

\* some task of the input has an optional part that the catalog prices
HasPricedOptionalPart == OptionalOnly # {}

\* C14: the annual parts cost of every task is services per year x the sum
\* over its non-optional parts of (catalog unit price x quantity x (1 -
\* parts_discount_pct / 100)); removing or re-pricing the optional parts of
\* the input changes nothing of the result.
C14_PartsCostOfRequiredParts ==
  Computed =>
    /\ \A i \in 1..Len(input.pmTasks) :
         result.pm_task_breakdown[i].parts_cost_per_year =
           round2(Mul(ServicesPerYear(input.pmTasks[i], FleetUnitsTotal, FleetAvgHours),
                      RequiredPartsCost(input.pmTasks[i].parts)))
    /\ OptionalRemoved # input
         => result = runAnalysisAt(OptionalRemoved, result.calculated_at)
    /\ OptionalRepriced # input
         => result = runAnalysisAt(OptionalRepriced, result.calculated_at)

\* the oil service of 10 units at 6500 h: 130 services of 2 filters at 25 less
\* 20 % = 5200 a year, the gasket (optional, priced 40) not counted
C14_Witness ==
  /\ Computed
  /\ input.fleetUnits = <<BaseUnit>>
  /\ input.pmTasks = <<HoursTask>>
  /\ HasPricedOptionalPart
  /\ OptionalRemoved # input
  /\ OptionalRepriced # input
  /\ RequiredPartsCost(HoursTask.parts) = I(40)
  /\ result.pm_task_breakdown[1].parts_cost_per_year = I(5200)
  /\ result.maintenance_cost_summary.annual_parts_cost = I(5200)

\* the part numbers of the non-optional task parts of the input
RequiredPartNumbers ==
  UNION {{input.pmTasks[i].parts[k].part_number :
            k \in {j \in 1..Len(input.pmTasks[i].parts) :
                     ~Truthy(input.pmTasks[i].parts[j].is_optional)}} :
         i \in 1..Len(input.pmTasks)}

\* the names of the components that get a replacement entry
ScheduledComponents ==
  {result.component_replacements.components[c].component_name :
     c \in 1..Len(result.component_replacements.components)}

\* the part numbers the analysis looked up and the catalog does not list
UnpricedNumbers == (RequiredPartNumbers \cup ScheduledComponents) \ DOMAIN input.priceMap

\* the input with those numbers listed in the catalog at price 0
PricedAtZero ==
  [input EXCEPT !.priceMap = @ @@ [n \in UnpricedNumbers |-> 0]]

\* every breakdown row of an unlisted part costs nothing
UnpricedCostNothing ==
  \A i \in 1..Len(result.pm_task_breakdown) :
    \A k \in 1..Len(result.pm_task_breakdown[i].parts) :
      LET row == result.pm_task_breakdown[i].parts[k]
      IN row.part_number \in UnpricedNumbers => row.total_cost_per_service = Zero

\* C15: a task part or component whose part number the catalog does not list
\* is no error: the analysis completes, the part costs 0, and the output
\* tells it apart from a part priced at 0 (the result is not the one of the
\* same input with the part listed at price 0).
C15_UnpricedFlagged ==
  (Computed /\ UnpricedNumbers # {}) =>
    /\ ~result.threw
    /\ UnpricedCostNothing
    /\ result # runAnalysisAt(PricedAtZero, result.calculated_at)

\* the unlisted part and the part listed at 0 get rows that differ in the
\* part number only, the unlisted TURBO is costed as labor alone, and the
\* whole result is the one of a catalog that lists both at 0
C15_Witness ==
  /\ Computed
  /\ input.pmTasks = <<ZeroPriceTask>>
  /\ input.componentLifecycles = <<LongLifecycle>>
  /\ UnpricedNumbers = {"UNLISTED", "TURBO"}
  /\ UnpricedCostNothing
  /\ LET rows == result.pm_task_breakdown[1].parts
     IN /\ rows[1].part_number = "UNLISTED" /\ rows[2].part_number = "FREEPART"
        /\ [rows[1] EXCEPT !.part_number = "FREEPART"] = rows[2]
  /\ result.component_replacements.components[1].cost_per_replacement = I(1200)
  /\ result = runAnalysisAt(PricedAtZero, result.calculated_at)

\* working days x hours per day x utilization fraction of the input scenario
AvailableHoursPerTech ==
  Mul(Mul(I(input.scenario.working_days_per_year), I(input.scenario.hours_per_day)),
      Q(input.scenario.target_utilization_pct, 100))

\* ceil(labor hours x 1.15 / available hours), 0 when no hours are available
TechniciansFor(laborHours) ==
  IF AvailableHoursPerTech = Zero THEN Zero
  ELSE Ceil(Div(Mul(laborHours, Q(115, 100)), AvailableHoursPerTech))

\* C16: availableHoursPerTech = working days x hours per day x utilization
\* fraction and technicians needed = ceil(totalAnnualLaborHours x 1.15 /
\* availableHoursPerTech) in both engines; when availableHoursPerTech is 0
\* the count is 0 and no staffing figure is the outcome of a division by zero.
C16_Staffing ==
  /\ Computed =>
       /\ result.staffing.available_hours_per_technician = round2(AvailableHoursPerTech)
       /\ result.staffing.technicians_needed =
            TechniciansFor(result.locals.totalAnnualLaborHours)
       /\ IsFinite(result.staffing.technicians_needed)
       /\ IsFinite(result.staffing.utilization_without_safety)
       /\ \A y \in 1..Len(result.annual_projections) :
            IsFinite(result.annual_projections[y].technicians_needed)
  /\ FullComputed =>
       /\ full.summary.technicians_required =
            TechniciansFor(full.locals.totalAnnualLaborHours)
       /\ IsFinite(full.summary.technicians_required)

\* 250 days x 8 h x 0.75 = 1500 available hours and 3000 labor hours: 3
C16_Witness ==
  /\ Computed
  /\ input.pmTasks = <<StaffingTask>>
  /\ AvailableHoursPerTech = I(1500)
  /\ result.locals.totalAnnualLaborHours = I(3000)
  /\ result.staffing.technicians_needed = I(3)

\* no available hours: no technician, and no infinite or undefined figure
C16_WitnessNoHours ==
  /\ Computed
  /\ input.pmTasks = <<StaffingTask>>
  /\ input.scenario.target_utilization_pct = 0
  /\ AvailableHoursPerTech = Zero
  /\ result.locals.totalAnnualLaborHours = I(3000)
  /\ result.staffing.technicians_needed = Zero
  /\ result.staffing.utilization_without_safety = Zero

\* the commissioning rate of a unit group in units per month (a group
\* without a rate is commissioned at once)
MonthlyRate(unit) ==
  IF NumTruthy(unit.commissioning_rate_per_month)
    THEN unit.commissioning_rate_per_month ELSE I(unit.quantity)

\* the months the slowest unit group takes to be fully commissioned
CommissioningHorizon ==
  LET months == {Ceil(Div(I(input.fleetUnits[i].quantity), MonthlyRate(input.fleetUnits[i])))[1] :
                   i \in 1..Len(input.fleetUnits)}
  IN CHOOSE h \in months : \A k \in months : k <= h

\* the units in service after m months
UnitsActive(m) ==
  SumSeq([i \in 1..Len(input.fleetUnits) |->
            Min(I(input.fleetUnits[i].quantity), Mul(MonthlyRate(input.fleetUnits[i]), I(m)))])

Ramp == full.staffing_timeline

\* what both statements of C17 say of every month of the ramp
RampAccumulates ==
  /\ Len(Ramp) >= 12
  /\ \A m \in 1..Len(Ramp) :
       /\ Ramp[m].month = m
       /\ Ramp[m].units_active = UnitsActive(m)
       /\ Le(Ramp[m].units_active, full.summary.total_units)
       /\ m > 1 => Le(Ramp[m - 1].units_active, Ramp[m].units_active)

\* the final month of the ramp has the whole fleet and every technician
RampEndsFull ==
  /\ Ramp[Len(Ramp)].units_active = full.summary.total_units
  /\ Ramp[Len(Ramp)].technicians = full.summary.technicians_required

\* C17 as stated: units_active(m) is the sum over the fleet units of
\* min(quantity, rate x m), non-decreasing and never above totalUnits, and the
\* ramp (at least 12 months) extends past the longest commissioning horizon:
\* its final month has all units active and the full technician count.
C17_RampReachesFullFleet ==
  FullComputed =>
    /\ RampAccumulates
    /\ Len(Ramp) > CommissioningHorizon
    /\ RampEndsFull

\* C17, amended: the ramp has min(36, max(12, horizon + 6)) months, and its
\* final month has the whole fleet and every technician when the horizon is
\* at most 36 months.
C17_RampCappedAtThreeYears ==
  FullComputed =>
    /\ RampAccumulates
    /\ Len(Ramp) = IF CommissioningHorizon + 6 <= 12 THEN 12
                   ELSE IF CommissioningHorizon + 6 >= 36 THEN 36
                   ELSE CommissioningHorizon + 6
    /\ CommissioningHorizon <= 36 => RampEndsFull

\* 80 units at 2 a month: the ramp stops at month 36 with 72 units in service
C17_Witness ==
  /\ FullComputed
  /\ input.fleetUnits = <<SlowUnit>>
  /\ CommissioningHorizon = 40
  /\ Len(Ramp) = 36
  /\ Ramp[36].units_active = I(72)
  /\ full.summary.total_units = I(80)
  /\ ~RampEndsFull

Components == result.component_replacements.components

\* the cost of one replacement of a component entry at today's prices:
\* replacement labor hours x specialist rate + the catalog price of the
\* component less the parts discount
ReplacementCost(entry) ==
  Add(Mul(I(entry.labor_hours), I(input.scenario.labor_rate_specialist)),
      Mul(CatalogPrice(entry.component_name),
          Sub(One, Q(input.scenario.parts_discount_pct, 100))))

\* (1 + inflation rate) ^ year
RECURSIVE InflationFactor(_)
InflationFactor(year) ==
  IF year = 0 THEN One
  ELSE Mul(InflationFactor(year - 1), Add(One, Q(input.scenario.inflation_rate_pct, 100)))

\* the events of year y of every entry, each times the quantity of its units
RECURSIVE EventsOfYear(_, _, _)
EventsOfYear(c, k, y) ==
  IF c > Len(Components) THEN Zero
  ELSE IF k > Len(Components[c].schedule) THEN EventsOfYear(c + 1, 1, y)
  ELSE Add(IF Components[c].schedule[k].year = y
             THEN Mul(Components[c].schedule[k].estimated_cost, I(Components[c].quantity))
             ELSE Zero,
           EventsOfYear(c, k + 1, y))

\* C18: every scheduled replacement event costs (replacement labor hours x
\* specialist rate + part price) x (1 + inflation rate) ^ year of the event,
\* and the projection row of year y adds the sum of the events scheduled in
\* year y times the quantity of their units, without a further inflation
\* factor.
C18_EventCosts ==
  Computed =>
    /\ \A c \in 1..Len(Components) : \A k \in 1..Len(Components[c].schedule) :
         Components[c].schedule[k].estimated_cost =
           round2(Mul(ReplacementCost(Components[c]),
                      InflationFactor(Components[c].schedule[k].year)))
    /\ \A y \in 1..Len(result.annual_projections) :
         result.annual_projections[y].component_replacement_cost =
           round2(EventsOfYear(1, 1, y))

\* inflation 100 %: the belt (4 h x 150 + 300 less 20 % = 840) costs 1680 in
\* year 1 and the plug (1 h x 150) 300; ten units each: 19800 in the row
C18_Witness ==
  /\ Computed
  /\ input.scenario.inflation_rate_pct = 100
  /\ input.componentLifecycles = <<BeltLifecycle, YearlyLifecycle>>
  /\ Components[1].component_name = "BELT"
  /\ ReplacementCost(Components[1]) = I(840)
  /\ Components[1].schedule[1].year = 1
  /\ Components[1].schedule[1].estimated_cost = I(1680)
  /\ Components[2].schedule[1].estimated_cost = I(300)
  /\ result.annual_projections[1].component_replacement_cost = I(19800)

FuelRows == result.fuel_summary.details

\* the fuel rate of a fuel row on the basis of the fuel price: therms per
\* hour, 100 cubic feet to the therm
ThermsPerHour(row) ==
  IF row.fuel_unit = "CFH" THEN Div(I(row.fuel_rate), I(100)) ELSE I(row.fuel_rate)

\* rate x hours x price x quantity of a fuel row, the rate in therms per hour
ConvertedFuelCost(row) ==
  Mul(Mul(Mul(ThermsPerHour(row), I(row.annual_hours)),
          I(input.scenario.fuel_cost_per_unit)), I(row.quantity))

RECURSIVE ConvertedFuelTotal(_)
ConvertedFuelTotal(n) ==
  IF n = 0 THEN Zero ELSE Add(ConvertedFuelTotal(n - 1), ConvertedFuelCost(FuelRows[n]))

\* C19: a fuel rate given in cubic feet per hour is converted to therms per
\* hour (CFH / 100) before unit fuel cost = rate x hours x price x quantity is
\* computed, so the same consumption costs the same in either unit.
C19_CfhConverted ==
  Computed =>
    /\ \A i \in 1..Len(FuelRows) :
         FuelRows[i].annual_fuel_cost = round2(ConvertedFuelCost(FuelRows[i]))
    /\ result.fuel_summary.annual_fuel_cost = round2(ConvertedFuelTotal(Len(FuelRows)))

\* the same unit (2 therms = 200 cubic feet an hour, 6500 h, 1 a therm)
\* costs 13000 a year with its rate in therms per hour and 1300000 with its
\* rate in cubic feet per hour
C19_Witness ==
  /\ Computed
  /\ input.fleetUnits = <<CfhUnit, ThermUnit>>
  /\ FuelRows[1].fuel_unit = "CFH" /\ FuelRows[1].fuel_rate = 200
  /\ FuelRows[2].fuel_unit = "therms/hr" /\ FuelRows[2].fuel_rate = 2
  /\ ConvertedFuelCost(FuelRows[1]) = ConvertedFuelCost(FuelRows[2])
  /\ FuelRows[1].annual_fuel_cost = I(1300000)
  /\ FuelRows[2].annual_fuel_cost = I(13000)

\* the first rate of the list that is available (set and not 0), else 0
RECURSIVE FirstAvailable(_)
FirstAvailable(rates) ==
  IF rates = <<>> THEN 0
  ELSE IF Head(rates) # NULL /\ Head(rates) # 0 THEN Head(rates)
  ELSE FirstAvailable(Tail(rates))

\* the rate the tier rule gives a unit at duty cycle dc
TierRate(unit, dc) ==
  IF Ge(dc, Q(85, 100)) THEN FirstAvailable(<<unit.fuel_consumption_rate_full>>)
  ELSE IF Ge(dc, Q(6, 10))
    THEN FirstAvailable(<<unit.fuel_consumption_rate_75, unit.fuel_consumption_rate_full>>)
  ELSE FirstAvailable(<<unit.fuel_consumption_rate_50, unit.fuel_consumption_rate_75,
                        unit.fuel_consumption_rate_full>>)

\* the fuel row of unit i has the rate of the tier of duty cycle dc, and
\* costs nothing when that tier has no rate
RowFollowsTier(i, dc) ==
  /\ FuelRows[i].fuel_rate = TierRate(input.fleetUnits[i], dc)
  /\ TierRate(input.fleetUnits[i], dc) = 0 => FuelRows[i].annual_fuel_cost = Zero

\* C20: per fleet unit the fuel rate is chosen by its duty cycle: >= 0.85 the
\* full-load rate; >= 0.6 the 75 % rate, else the full-load rate; below 0.6
\* the 50 % rate, else the 75 % rate, else the full-load rate; a unit without
\* any rate has fuel cost 0.
C20_TierByDutyCycle ==
  (Computed /\ Truthy(input.scenario.include_fuel_costs)) =>
    \A i \in 1..Len(input.fleetUnits) : RowFollowsTier(i, input.fleetUnits[i].duty_cycle)

\* the same for the units of a duty cycle other than 0
TierByPositiveDutyCycle ==
  (Computed /\ Truthy(input.scenario.include_fuel_costs)) =>
    \A i \in 1..Len(input.fleetUnits) :
      input.fleetUnits[i].duty_cycle # Zero
        => RowFollowsTier(i, input.fleetUnits[i].duty_cycle)

\* a unit stored with duty cycle 0 is costed at its 75 % rate as a unit of
\* duty cycle 0.75, not at its 50 % rate
C20_Witness ==
  /\ Computed
  /\ Len(input.fleetUnits) = 1
  /\ input.fleetUnits[1].duty_cycle = Zero
  /\ input.fleetUnits[1].fuel_consumption_rate_50 = 1
  /\ input.fleetUnits[1].fuel_consumption_rate_75 = 2
  /\ TierRate(input.fleetUnits[1], Zero) = 1
  /\ FuelRows[1].fuel_rate = 2
  /\ FuelRows[1].duty_cycle = Q(3, 4)
  /\ FuelRows[1].annual_fuel_cost = I(13000)

\* a run of a scenario whose fuel switch is off
FuelOff == Computed /\ ~Truthy(input.scenario.include_fuel_costs)

\* the unrounded figures of projection year y
Figures(y) == result.locals.yearFigures[y]

\* C21: with include_fuel_costs off fuel is skipped: annual fuel cost 0, no
\* fuel detail rows, the fuel summary flagged disabled, and every projection
\* year has fuel cost 0 and a total made of maintenance, downtime and
\* component replacement only.
C21_FuelSkippedWhenOff ==
  FuelOff =>
    /\ result.fuel_summary.annual_fuel_cost = Zero
    /\ result.fuel_summary.details = <<>>
    /\ result.fuel_summary.enabled = FALSE
    /\ Len(result.annual_projections) = input.scenario.analysis_period_years
    /\ \A y \in 1..Len(result.annual_projections) :
         /\ result.annual_projections[y].fuel_cost = Zero
         /\ Figures(y).total =
              Add(Add(Figures(y).maintenance, Figures(y).downtime), Figures(y).component)
         /\ result.annual_projections[y].total_cost = round2(Figures(y).total)

\* a run with the switch off of a fleet that would burn 5 x 2 x 6500 x 10 a
\* year, with downtime and a belt replacement in its year totals
C21_Witness ==
  /\ FuelOff
  /\ input.scenario.fuel_cost_per_unit = 5
  /\ input.fleetUnits[1].fuel_consumption_rate_75 = 2
  /\ UnitFuelCost(input.fleetUnits[1], input.scenario) = I(650000)
  /\ Truthy(input.scenario.include_downtime_costs)
  /\ Len(result.annual_projections) = 3
  /\ Gt(result.annual_projections[1].component_replacement_cost, Zero)
  /\ Gt(result.annual_projections[1].downtime_cost, Zero)
  /\ result.annual_projections[3].fuel_cost = Zero

\* generateFailureCurve has returned for a positive mean life, a positive
\* shape and at least one sampling interval
CurveSampled ==
  /\ request.op = "generateFailureCurve"
  /\ request.expectedLifeHours > 0
  /\ request.weibullShape > 0
  /\ request.points > 0

Curve == response.value.curve

\* the time of sample i (0-based): i x (2 x meanLife / points)
SampleTime(i) == Mul(I(i), Div(I(2 * request.expectedLifeHours), I(request.points)))

IntervalSearched ==
  /\ request.op = "optimalReplacementInterval"
  /\ request.expectedLifeHours > 0
  /\ request.weibullShape > 0

\* the scale of the distribution of the call: meanLife / Gamma(1 + 1 / shape)
ScaleOfCall ==
  Div(I(request.expectedLifeHours),
      gammaFunction(Add(One, Div(One, I(request.weibullShape)))))

\* (plannedCost R(t) + multiplier plannedCost F(t)) / (t R(t) + (t / 2) F(t))
ClaimedCostRate(t) ==
  LET F == weibullCDF(t, I(request.weibullShape), ScaleOfCall)
      R == weibullReliability(t, I(request.weibullShape), ScaleOfCall)
      planned == I(request.plannedCost)
      unplanned == Mul(I(request.unplannedCostMultiplier), planned)
  IN Div(Add(Mul(planned, R), Mul(unplanned, F)),
         Add(Mul(t, R), Mul(Div(t, I(2)), F)))

\* the uniform grid of the search: k x meanLife / 100 for k = 1 .. 150
GridSize == 150

GridTime(k) == Div(I(k * request.expectedLifeHours), I(100))

\* the candidates of the least cost rate
GridMinima ==
  LET rate == Tuple([k \in 1..GridSize |-> ClaimedCostRate(GridTime(k))])
      least == CHOOSE k \in 1..GridSize : \A j \in 1..GridSize : Le(rate[k], rate[j])
  IN {k \in 1..GridSize : rate[k] = rate[least]}

Scheduled == request.op = "generateReplacementSchedule"

Schedule == response.value

\* floor(y x avgAnnualHours / lifeHours)
LivesUsedBy(comp, y) ==
  Floor(Div(I(y * request.avgAnnualHours), I(comp.expected_life_hours)))

\* the components due in year y, in the order given
DueIn(y) ==
  SelectSeq(request.components,
            LAMBDA comp : Gt(LivesUsedBy(comp, y), LivesUsedBy(comp, y - 1)))

\* the labor rate of the schedule
ScheduleLaborRate == 120

\* the replacement labor hours of a component (8, the default of the
\* component_lifecycles table, when none are given)
LaborHoursOf(comp) == Coalesce(comp.replacement_labor_hours, 8)

\* (part cost + replacement labor hours x labor rate) x totalUnits
EventCost(comp) ==
  Mul(Add(I(comp.replacement_cost), I(LaborHoursOf(comp) * ScheduleLaborRate)),
      I(request.totalUnits))

\* the rows are the years 1..periodYears and list the due components
RowsAndDueComponents ==
  /\ Len(Schedule) = request.periodYears
  /\ \A y \in 1..Len(Schedule) :
       /\ Schedule[y].year = y
       /\ Len(Schedule[y].replacements) = Len(DueIn(y))
       /\ \A k \in 1..Len(DueIn(y)) :
            Schedule[y].replacements[k].component = DueIn(y)[k].component_name

\* the total cost of a row is the sum of the event costs of the components
\* in due
RowCosts(due, y) ==
  Schedule[y].total_cost = SumSeq([k \in 1..Len(due) |-> EventCost(due[k])])

\* C24: generateReplacementSchedule returns one row per year 1..periodYears;
\* a component is listed as due in year y exactly when
\* floor(y x avgAnnualHours / lifeHours) > floor((y - 1) x avgAnnualHours / lifeHours),
\* and the total cost of the row is the sum over the due components of
\* (part cost + replacement labor hours x labor rate) x totalUnits.
C24_ReplacementSchedule ==
  Scheduled =>
    /\ RowsAndDueComponents
    /\ \A y \in 1..Len(Schedule) : RowCosts(DueIn(y), y)

\* the same, costing only the components that take labor to replace
ScheduleOfComponentsWithLabor ==
  Scheduled =>
    /\ RowsAndDueComponents
    /\ \A y \in 1..Len(Schedule) :
         (\A k \in 1..Len(DueIn(y)) : DueIn(y)[k].replacement_labor_hours # 0)
           => RowCosts(DueIn(y), y)

\* a seal of 20000 h on one unit running 8760 h a year is due in year 3
\* only; its replacement takes no labor and costs 300, and the row charges
\* 300 + 8 x 120 = 1260
C24_Witness ==
  /\ Scheduled
  /\ request.totalUnits = 1 /\ request.avgAnnualHours = 8760 /\ request.periodYears = 3
  /\ Len(request.components) = 1
  /\ request.components[1].component_name = "SEAL"
  /\ request.components[1].replacement_labor_hours = 0
  /\ Schedule[1].replacements = <<>> /\ Schedule[2].replacements = <<>>
  /\ Len(Schedule[3].replacements) = 1
  /\ EventCost(request.components[1]) = I(300)
  /\ Schedule[3].total_cost = I(1260)

\* every stored snapshot references a stored scenario
SnapshotsReferenceScenarios ==
  \A k \in DOMAIN db.analysis_snapshots :
    db.analysis_snapshots[k].scenario_id \in DOMAIN db.scenarios

\* the step answers a request
Answered == db'.clock = db.clock + 1

\* a DELETE /:id that is answered 200 leaves no snapshot of the scenario
DeleteRemovesSnapshots ==
  (Answered /\ request'.op = "DELETE /:id" /\ response'.status = 200) =>
    /\ request'.id \notin DOMAIN db'.scenarios
    /\ \A k \in DOMAIN db'.analysis_snapshots :
         db'.analysis_snapshots[k].scenario_id # request'.id

\* a snapshot request for a scenario id that does not exist is answered 404
\* and stores nothing
UnknownScenarioRefused ==
  \A id \in ScenarioIds :
    (Answered /\ pending = NoPending /\ id \notin DOMAIN db.scenarios
       /\ request'.op = "POST /:id/snapshot" /\ request'.id = id) =>
      /\ response'.status = 404
      /\ db'.analysis_snapshots = db.analysis_snapshots
      /\ db'.scenarios = db.scenarios

\* C25: after any sequence of scenario create, update, delete and
\* snapshot-save requests every stored snapshot references an existing
\* scenario: deleting a scenario removes all of its snapshots, and saving a
\* snapshot for a scenario id that does not exist is rejected (404) without
\* storing anything.
C25_SnapshotsHaveScenarios ==
  /\ []SnapshotsReferenceScenarios
  /\ [][DeleteRemovesSnapshots /\ UnknownScenarioRefused]_vars

\* a scenario that had a snapshot was deleted: no snapshot is left, and a
\* snapshot request for it was since refused
C25_Witness ==
  /\ db.analysis_snapshots_id_seq = 1
  /\ db.analysis_snapshots = <<>>
  /\ 1 \notin DOMAIN db.scenarios
  /\ request.op = "POST /:id/snapshot" /\ request.id = 1
  /\ response.status = 404

\* the step answers a PUT /:id
Updating == Answered /\ request'.op = "PUT /:id"

\* the recognized fields the body of the PUT has
FieldsPresent == ScenarioFields \cap DOMAIN request'.body

\* the value the body gives a field (a flag is stored as 1 or 0)
ValueGiven(f) ==
  IF f \in ScenarioBooleanFields
    THEN (IF request'.body[f] \in {0, NULL} THEN 0 ELSE 1)
    ELSE request'.body[f]

\* the body names a fleet, PM schedule or price list that does not exist
NamesMissingReference ==
  \/ Given(request'.body, "fleet_id") \notin FleetIds \cup {NULL}
  \/ Given(request'.body, "pm_schedule_id") \notin PmScheduleIds \cup {NULL}
  \/ Given(request'.body, "price_list_id") \notin PriceListIds \cup {NULL}

\* the tables hold what they held
StoreUnchanged ==
  /\ db'.scenarios = db.scenarios
  /\ db'.analysis_snapshots = db.analysis_snapshots

\* scenario id has the fields of the body set, updated_at stamped and every
\* other field as before; the other rows are as before
PartiallyUpdated(id) ==
  /\ DOMAIN db'.scenarios = DOMAIN db.scenarios
  /\ db'.analysis_snapshots = db.analysis_snapshots
  /\ \A other \in DOMAIN db.scenarios \ {id} : db'.scenarios[other] = db.scenarios[other]
  /\ DOMAIN db'.scenarios[id] = DOMAIN db.scenarios[id]
  /\ \A f \in DOMAIN db.scenarios[id] :
       IF f \in FieldsPresent THEN db'.scenarios[id][f] = ValueGiven(f)
       ELSE IF f = "updated_at" THEN db'.scenarios[id][f] = db.clock
       ELSE db'.scenarios[id][f] = db.scenarios[id][f]

\* C26: PUT /:id is a partial update: it changes exactly the recognized
\* fields the request has (and updated_at) and leaves every other field of
\* the scenario as it was; a request without a recognized field, for an
\* unknown scenario, or naming a fleet, PM schedule or price list that does
\* not exist is rejected and leaves the stored scenario unchanged.
C26_PartialUpdate ==
  [][Updating =>
       /\ (FieldsPresent = {} \/ request'.id \notin DOMAIN db.scenarios
             \/ NamesMissingReference) => response'.status \in {400, 404, 500}
       /\ response'.status \in {200, 400, 404, 500}
       /\ response'.status # 200 => StoreUnchanged
       /\ response'.status = 200 => PartiallyUpdated(request'.id)]_vars

\* the labor rate of scenario 1 was set to 90 by a body that also had an
\* unrecognized field: name, fleet and the other rates are as created
C26_Witness ==
  /\ request.op = "PUT /:id" /\ request.id = 1
  /\ request.body = [labor_rate |-> 90, comment |-> "x"]
  /\ response.status = 200
  /\ db.scenarios[1].labor_rate = 90
  /\ db.scenarios[1].name = "A" /\ db.scenarios[1].fleet_id = 1
  /\ db.scenarios[1].labor_rate_specialist = 180
  /\ db.scenarios[1].updated_at > db.scenarios[1].created_at

\* ------------------------------------------------------------------------
\* C27: the component replacement total and the projection years
\* ------------------------------------------------------------------------
\* a run that returned its result
Returned == Computed /\ ~result.threw

\* the replacement events on the schedules of the result
ReplacementEvents ==
  SumSeq([c \in 1..Len(result.component_replacements.components) |->
            I(Len(result.component_replacements.components[c].schedule))])

\* the sum over the projection years of component_replacement_cost
ComponentCostOfYears ==
  SumSeq([y \in 1..Len(result.annual_projections) |->
            result.annual_projections[y].component_replacement_cost])

\* half a cent for each figure rounded on the way: every event cost, every
\* year cost and the total
RoundingSlack ==
  Mul(Q(1, 200), Add(ReplacementEvents, I(Len(result.annual_projections) + 1)))

TotalIsSumOfYears ==
  Le(AbsNum(Sub(result.component_replacements.total_cost_over_period,
                ComponentCostOfYears)),
     RoundingSlack)

\* C27: component_replacements.total_cost_over_period equals the sum over
\* all projection years of that year's component_replacement_cost (to the
\* rounding of the reported figures), for any fleet-unit quantities.
C27_ComponentTotalIsSumOfYears == Returned => TotalIsSumOfYears

\* the same for fleets whose unit groups hold one unit each
C27_TotalOfSingleUnits ==
  (Returned /\ \A u \in 1..Len(input.fleetUnits) : input.fleetUnits[u].quantity = 1)
    => TotalIsSumOfYears

\* a group of 10 units whose belt is replaced every year of a 3-year period:
\* the total counts 3 events, the years count 30
C27_Witness ==
  /\ Returned
  /\ input.fleetUnits[1].quantity = 10
  /\ input.scenario.inflation_rate_pct = 0
  /\ Len(result.component_replacements.components) = 1
  /\ ReplacementEvents = I(3)
  /\ Gt(result.component_replacements.total_cost_over_period, Zero)
  /\ ComponentCostOfYears =
       Mul(I(10), result.component_replacements.total_cost_over_period)

\* a single unit with replacements
C27_WitnessSingleUnit ==
  /\ Returned
  /\ \A u \in 1..Len(input.fleetUnits) : input.fleetUnits[u].quantity = 1
  /\ Gt(ReplacementEvents, Zero)
  /\ Gt(result.component_replacements.total_cost_over_period, Zero)

\* ------------------------------------------------------------------------
\* C28: the downtime estimate and the totals built on it
\* ------------------------------------------------------------------------
\* a returned run of a non-empty fleet with at least one task and the
\* downtime switch on
DowntimeIncluded ==
  /\ Returned
  /\ Len(input.fleetUnits) > 0
  /\ Len(input.pmTasks) > 0
  /\ Truthy(input.scenario.include_downtime_costs)

\* the services per year of the task breakdown, as the downtime block adds
\* them up
ServicesPerYearOfResult ==
  SumSeq([i \in 1..Len(result.pm_task_breakdown) |->
            result.pm_task_breakdown[i].services_per_year])

\* 1.5 x total annual labor hours x downtime cost per hour
ClaimedDowntimeCost ==
  Mul(Mul(Q(3, 2), result.locals.totalAnnualLaborHours),
      I(input.scenario.downtime_cost_per_hour))

\* the four parts of a reported projection year add up to its total
YearIsSumOfParts(y) ==
  LET row == result.annual_projections[y]
  IN /\ IsFinite(Figures(y).total)
     /\ Figures(y).total =
          Add(Add(Add(Figures(y).maintenance, Figures(y).fuel), Figures(y).downtime),
              Figures(y).component)
     /\ row.total_cost = round2(Figures(y).total)
     /\ Le(AbsNum(Sub(row.total_cost,
                      Add(Add(Add(row.maintenance_cost, row.fuel_cost),
                              row.downtime_cost), row.component_replacement_cost))),
           Q(1, 40))

DowntimeAndTotalsSound ==
  /\ IsFinite(result.locals.annualDowntimeCost)
  /\ result.locals.annualDowntimeCost = ClaimedDowntimeCost
  /\ result.downtime_summary.annual_downtime_cost = round2(ClaimedDowntimeCost)
  /\ \A y \in 1..Len(result.annual_projections) : YearIsSumOfParts(y)
  /\ IsFinite(result.locals.cumulativeCost)
  /\ IsFinite(result.locals.npvTotal)
  /\ result.locals.cumulativeCost =
       SumSeq([y \in 1..Len(result.annual_projections) |-> Figures(y).total])
  /\ result.locals.npvTotal =
       SumSeq([y \in 1..Len(result.annual_projections) |-> Figures(y).npv])

\* C28: for every runnable input (non-empty fleet, at least one task) with
\* downtime costs included, the annual downtime cost is a finite number equal
\* to 1.5 x total annual labor hours x downtime cost per hour (0 when the
\* tasks yield zero services per year), so every year total, the cumulative
\* cost and the NPV are the sums of their maintenance, fuel, downtime and
\* component parts.
C28_DowntimeFinite == DowntimeIncluded => DowntimeAndTotalsSound

\* the same for runs whose tasks yield services
C28_DowntimeOfServices ==
  (DowntimeIncluded /\ ServicesPerYearOfResult # Zero) => DowntimeAndTotalsSound

\* one task without a recurrence rule on a fleet that burns fuel: no
\* services, the downtime cost is 0 / 0, and the years report a total of 0
\* next to a fuel cost
C28_Witness ==
  /\ DowntimeIncluded
  /\ ServicesPerYearOfResult = Zero
  /\ IsNaN(result.locals.annualDowntimeCost)
  /\ Len(result.annual_projections) > 0
  /\ Gt(result.annual_projections[1].fuel_cost, Zero)
  /\ result.annual_projections[1].total_cost = Zero

\* a run with services and a downtime cost
C28_WitnessServices ==
  /\ DowntimeIncluded
  /\ Gt(ServicesPerYearOfResult, Zero)
  /\ Gt(result.locals.annualDowntimeCost, Zero)
  /\ Len(result.annual_projections) = 3

\* ------------------------------------------------------------------------
\* C29: every stored PM task has a recurrence rule
\* ------------------------------------------------------------------------
\* the task has an interval in hours, an interval in months or is one-time
HasRecurrenceRule(task) ==
  \/ Truthy(task.interval_hours)
  \/ Truthy(task.interval_months)
  \/ Truthy(task.is_one_time)

AllTasksHaveRule == \A id \in DOMAIN db.pm_tasks : HasRecurrenceRule(db.pm_tasks[id])

\* a body of a create request names a rule
BodyNamesRule(body) ==
  \/ Truthy(Given(body, "interval_hours"))
  \/ Truthy(Given(body, "interval_months"))
  \/ Truthy(Given(body, "is_one_time"))

\* a create request without a rule is answered 400 and stores nothing; a
\* task that is created has a rule
CreationChecked ==
  (Answered /\ request'.op = "POST /schedules/:id/tasks") =>
     /\ ~BodyNamesRule(request'.body) =>
          /\ response'.status \in {400, 404}
          /\ db'.pm_tasks = db.pm_tasks
     /\ response'.status = 201 =>
          /\ HasRecurrenceRule(response'.body)
          /\ db'.pm_tasks[response'.body.id] = response'.body

\* an update leaves no task without a rule
UpdateKeepsRule ==
  (Answered /\ request'.op = "PUT /tasks/:taskId" /\ AllTasksHaveRule)
    => AllTasksHaveRule'

\* C29: after any sequence of PM-task create and update operations every
\* stored task has at least one recurrence rule (interval_hours,
\* interval_months or is_one_time): creation without any of the three is
\* rejected, and no update can leave a task with none of them.
C29_TasksHaveRule ==
  []AllTasksHaveRule /\ [][CreationChecked /\ UpdateKeepsRule]_vars

\* the part about creation
C29_CreationChecked == [][CreationChecked]_vars

\* the hours-based task 1 after PUT /tasks/1 {interval_hours: null}
C29_Witness ==
  /\ request.op = "PUT /tasks/:taskId"
  /\ request.id = 1
  /\ request.body = [interval_hours |-> NULL]
  /\ response.status = 200
  /\ 1 \in DOMAIN db.pm_tasks
  /\ db.pm_tasks[1].name = "oil change"
  /\ db.pm_tasks[1].interval_hours = NULL
  /\ db.pm_tasks[1].interval_months = NULL
  /\ db.pm_tasks[1].is_one_time = 0

\* a create request without a rule that was refused
C29_WitnessRefused ==
  /\ request.op = "POST /schedules/:id/tasks"
  /\ request.id = 1
  /\ request.body = [name |-> "unscheduled"]
  /\ response.status = 400
  /\ db.pm_tasks_id_seq = 1

\* ------------------------------------------------------------------------
\* C30: startup retries the initialization and always ends up listening
\* ------------------------------------------------------------------------
Started == server # NoServer

\* the initialization attempts have ended: one succeeded, or ten failed
AttemptsEnded ==
  Started /\ (server.initialized \/ Len(server.failures) = 10)

\* the wait after failed attempt k
ClaimedDelay(k) == IF k = 1 THEN 2000 ELSE IF k = 2 THEN 4000 ELSE IF k = 3 THEN 6000
                   ELSE IF k = 4 THEN 8000 ELSE 10000

StartupSafe ==
  Started =>
    /\ server.initializeCalls <= 10
    /\ server.initializeCalls \in {Len(server.failures), Len(server.failures) + 1}
    /\ server.initialized => server.initializeCalls = Len(server.failures) + 1
    \* a wait after every failed attempt except the tenth
    /\ Len(server.delays) = IF Len(server.failures) = 10 THEN 9 ELSE Len(server.failures)
    /\ \A k \in 1..Len(server.delays) : server.delays[k] = ClaimedDelay(k)
    /\ server.listenCalls <= 1
    /\ server.listenCalls = 1 => AttemptsEnded

\* nothing is attempted after the first success or while a wait lasts, and
\* listening starts only once the attempts have ended
StartupStep ==
  /\ (Started /\ server.initialized) => server'.initializeCalls = server.initializeCalls
  /\ (Started /\ server.pc = "await timer" /\ server'.pc = "await timer")
       => server'.initializeCalls = server.initializeCalls
  /\ (Started /\ server'.listenCalls # server.listenCalls) => AttemptsEnded

ListeningOnce == Started /\ server.pc = "listening" /\ server.listenCalls = 1

\* C30: startServer calls the database initialize at most 10 times, stops
\* retrying at the first success, waits 2000 x min(attempt, 5) ms after each
\* failed attempt except the last, and in every case (success or 10
\* consecutive failures) eventually starts listening exactly once and never
\* before the initialization attempts have ended.
C30_StartupListens ==
  /\ []StartupSafe
  /\ [][StartupStep]_vars
  /\ <>[]ListeningOnce

\* listening after ten failed attempts and the nine waits 2, 4, 6, 8, 10,
\* 10, 10, 10, 10 s
C30_Witness ==
  /\ ListeningOnce
  /\ ~server.initialized
  /\ server.initializeCalls = 10
  /\ Len(server.failures) = 10
  /\ server.delays = <<2000, 4000, 6000, 8000, 10000, 10000, 10000, 10000, 10000>>

\* listening after a success at the seventh attempt
C30_WitnessSuccess ==
  /\ ListeningOnce
  /\ server.initialized
  /\ server.initializeCalls = 7
  /\ Len(server.delays) = 6
====
